---- MODULE Spec2Model ----
(***************************************************************************)
(* Model of the spectra test-telemetry engine (monkescience/spectra).      *)
(*                                                                         *)
(* A Session (type Spectra) is created by Init, shut down by Shutdown.    *)
(* Spectra.New wraps a test handle (testing.TB) in a T that owns one span; *)
(* the T's Log/Error/Fatal/Skip methods write to the span and forward to   *)
(* the handle; a cleanup closure registered by New finalizes the span and  *)
(* records the test metric when the test scope exits.                      *)
(*                                                                         *)
(* Every wrapper method is one action.  A method is the composition, in    *)
(* the order of its statements, of step operators on a handler state h     *)
(* (the wrapper, its span, its handle, the metrics registry); every step   *)
(* appends its name to h.steps, so the order of the statements of the      *)
(* handler that ran last is part of the state (variable last).             *)
(*                                                                         *)
(* The span is the tracing collaborator's abstract capability: SetStatus   *)
(* overwrites the status, AddEvent appends, End ends.  A write made after  *)
(* End does not change what was handed to the exporter; it is recorded in  *)
(* the span's late flag.                                                   *)
(***************************************************************************)
EXTENDS Naturals, Sequences, FiniteSets, Bags, TLC

\* ------------------------------------------------------------------ bounds
\* wrapper calls one test makes in its body
MaxCalls == 2
\* Shutdown calls one caller makes
MaxShutdownCalls == 2
\* Init calls one caller makes
MaxInitCalls == 2
\* wrapper calls the helper goroutine of a test makes
MaxHelperCalls == 1

\* ------------------------------------------------------- program constants
logEventName == "log"

attrMessage == "message"
attrLevel == "level"
attrTestName == "test.name"
attrTestPhase == "test.phase"
attrTestParent == "test.parent"

levelInfo == "info"
levelError == "error"
levelFatal == "fatal"
levelSkip == "skip"

spanSetup == "/setup"
spanTeardown == "/teardown"

statusPass == "pass"
statusFail == "fail"
statusSkip == "skip"

\* the lines Shutdown logs
logTracer == "spectra: failed to shutdown tracer provider"
logMeter == "spectra: failed to shutdown meter provider"

\* codes.Code of the tracing collaborator
codesUnset == "Unset"
codesError == "Error"
codesOk == "Ok"

\* --------------------------------------------------------------- inputs
\* the tests of the process, by the name their handle reports (tb.Name())
Roots == {"TestA", "TestB"}
MainTest == "TestA"

\* names the tests give their subtests (the name argument of Run)
SubNames == {"sub"}

\* innerT.Name() of the subtest the runner creates for tt.Run(name, ...)
Child(t, name) == t \o "/" \o name

\* the subtests of the process: a subtest of the main test and a subtest of it
Subtests ==
    {Child(MainTest, n) : n \in SubNames}
    \cup {Child(Child(MainTest, n), m) : n \in SubNames, m \in SubNames}

Tests == Roots \cup Subtests

\* the test whose Run created subtest c
Parent(c) ==
    IF \E t \in Tests, n \in SubNames : Child(t, n) = c
    THEN CHOOSE t \in Tests : \E n \in SubNames : Child(t, n) = c
    ELSE "none"

Children(t) == {c \in Tests : Parent(c) = t}

RECURSIVE Ancestors(_)
Ancestors(c) == IF Parent(c) = "none" THEN {} ELSE {Parent(c)} \cup Ancestors(Parent(c))

\* The handles (testing.TB) a wrapper is built on.  Kind "T" is the runner's
\* *testing.T: Error marks the test failed; Fatal, FailNow, Skip and SkipNow
\* mark it and do not return.  Kind "B" is the runner's *testing.B: the same,
\* but it is not a *testing.T.  Kind "double" is a test double: every call
\* returns, and the double keeps the failed mark, the skipped mark, both (the
\* mockTB of the test suite) or neither, so that its Failed() or Skipped()
\* may report false after the call.
KindT == [kind |-> "T", keepsFailed |-> TRUE, keepsSkipped |-> TRUE]
Kinds ==
    {KindT, [kind |-> "B", keepsFailed |-> TRUE, keepsSkipped |-> TRUE]}
    \cup [kind : {"double"}, keepsFailed : BOOLEAN, keepsSkipped : BOOLEAN]
NoKind == [kind |-> "none", keepsFailed |-> FALSE, keepsSkipped |-> FALSE]

\* formatted text of a call's arguments (formatArgs / formatf), opaque here
Msgs == {"m"}

\* goroutines that call Shutdown
Callers == {"main", "other"}

Configs == [DisableLogs : BOOLEAN, DisableTraces : BOOLEAN, DisableMetrics : BOOLEAN]

\* Endpoints, as the sequences of their characters: "", "grpc://h",
\* "http://h" and "h" (no scheme).
Endpoints ==
    { << >>,
      <<"g", "r", "p", "c", ":", "/", "/", "h">>,
      <<"h", "t", "t", "p", ":", "/", "/", "h">>,
      <<"h">> }

\* The config the options of an Init call build (WithServiceName,
\* WithEndpoint, WithoutTraces, WithoutMetrics on config{}).
Opts ==
    [ServiceName : {"", "svc"}, Endpoint : Endpoints,
     DisableLogs : {FALSE}, DisableTraces : BOOLEAN, DisableMetrics : BOOLEAN]

\* config{}
NoOpts ==
    [ServiceName |-> "", Endpoint |-> << >>,
     DisableLogs |-> FALSE, DisableTraces |-> FALSE, DisableMetrics |-> FALSE]

VARIABLES
    sp,           \* the Session: config, providers, tracer, initialized, shutdown
    once,         \* sp.shutdownOnce: done flag and the caller running the body
    pc,           \* each Shutdown caller's position
    scalls,       \* Shutdown calls each caller has made
    sd,           \* what Shutdown did: body runs, provider releases, log lines
    testMetrics,  \* the process-wide metrics registry: TRUE when set (non-nil)
    tbs,          \* each test's handle: kind, failed, skipped, cleanups
    ts,           \* each test's wrapper T
    spans,        \* each test's span
    phase,        \* each test's position
    calls,        \* wrapper calls each test has made
    hist,         \* wrapper methods each test has called
    fin,          \* what the finalization hook did for each test
    aux,          \* each test's teardown functions and their spans
    last,         \* the handler that ran last and its steps in order
    ini,          \* each caller's Init call: position, config, providers, result
    otel,         \* the process-default tracer provider and meter provider
    reg,          \* metricsOnce, and what initMetrics did
    mu,           \* each wrapper's mutex: who holds it
    helper        \* the helper goroutine the main test starts: position, calls

vars ==
    <<sp, once, pc, scalls, sd, testMetrics, tbs, ts, spans, phase, calls, hist, fin, aux,
      last, ini, otel, reg, mu, helper>>

initVars == <<ini, otel, reg>>
sessionVars == <<sp, once, pc, scalls, sd, ini, otel, reg>>
helperVars == <<mu, helper>>
testVars == <<tbs, ts, spans, phase, calls, hist, fin, aux, helperVars>>

\* ------------------------------------------------------------ handler state
\* One step of a handler, as it appears in last.steps.
Step(op, a, b) == [op |-> op, a |-> a, b |-> b]

\* The state a handler of test t works on.  returned is FALSE once a
\* forwarded call has not returned: no later statement of the handler runs.
H(t) ==
    [w |-> ts[t], span |-> spans[t], tb |-> tbs[t], fin |-> fin[t], aux |-> aux[t],
     metrics |-> testMetrics, steps |-> <<>>, returned |-> TRUE]

Did(h, op, a, b) == [h EXCEPT !.steps = Append(@, Step(op, a, b))]

\* -------------------------------------------------------------- the span
NoSpan ==
    [started |-> FALSE, ended |-> FALSE, name |-> "", parent |-> "", attrs |-> {},
     code |-> codesUnset, msg |-> "", events |-> EmptyBag, late |-> FALSE]

\* tracer.Start(context.Background(), name, attrs)
StartedSpan(name, parent, attrs) ==
    [NoSpan EXCEPT !.started = TRUE, !.name = name, !.parent = parent, !.attrs = attrs]

Event(name, message, level) == [name |-> name, message |-> message, level |-> level]

\* span.SetStatus(code, message)
SpanSetStatus(h, code, message) ==
    IF ~h.returned THEN h
    ELSE Did(IF h.span.ended
             THEN [h EXCEPT !.span.late = TRUE]
             ELSE [h EXCEPT !.span.code = code, !.span.msg = message],
             "SetStatus", code, message)

\* span.AddEvent(name, attrs)
SpanAddEvent(h, name, message, level) ==
    IF ~h.returned THEN h
    ELSE Did(IF h.span.ended
             THEN [h EXCEPT !.span.late = TRUE]
             ELSE [h EXCEPT !.span.events = @ (+) SetToBag({Event(name, message, level)})],
             "AddEvent", name, level)

\* span.SpanContext().TraceID(): a span started under context.Background()
\* begins a trace, a span started under another span's context is in its trace.
RECURSIVE TraceID(_)
TraceID(s) == IF s.parent = "background" THEN s.name ELSE TraceID(spans[s.parent])

ParallelEvent(traceID) == [name |-> "parallel", traceID |-> traceID]

\* span.AddEvent("parallel", parent.trace_id = span.SpanContext().TraceID())
SpanAddParallel(h) ==
    IF ~h.returned THEN h
    ELSE Did(IF h.span.ended
             THEN [h EXCEPT !.span.late = TRUE]
             ELSE [h EXCEPT !.span.events = @ (+) SetToBag({ParallelEvent(TraceID(h.span))})],
             "AddEvent", "parallel", TraceID(h.span))

\* span.End()
SpanEnd(h) ==
    IF ~h.returned THEN h
    ELSE Did([h EXCEPT !.span.ended = TRUE], "End", "", "")

\* ------------------------------------------------------------ the handle
FailingCalls == {"Error", "Errorf", "Fatal", "Fatalf", "FailNow"}
SkippingCalls == {"Skip", "Skipf", "SkipNow"}
AbortingCalls == {"Fatal", "Fatalf", "FailNow", "Skip", "Skipf", "SkipNow"}

NewHandle(k) ==
    [kind |-> k.kind, keepsFailed |-> k.keepsFailed, keepsSkipped |-> k.keepsSkipped,
     failed |-> FALSE, skipped |-> FALSE, cleanups |-> <<>>]

\* t.tb.<method>(...): the forwarded call on the underlying handle.
TbCall(h, method) ==
    IF ~h.returned THEN h
    ELSE Did([h EXCEPT
                !.tb.failed = @ \/ (h.tb.keepsFailed /\ method \in FailingCalls),
                !.tb.skipped = @ \/ (h.tb.keepsSkipped /\ method \in SkippingCalls),
                !.returned = ~(h.tb.kind \in {"T", "B"} /\ method \in AbortingCalls)],
             "tb", method, "")

\* (*testing.T).Fail marks the ancestors of a failed subtest failed as well.
FailUp(handles, t) ==
    [x \in Tests |->
        IF x \in Ancestors(t) /\ handles[t].failed
        THEN [handles[x] EXCEPT !.failed = TRUE]
        ELSE handles[x]]

\* tb.Cleanup(f)
TbCleanup(h, hook) == [h EXCEPT !.tb.cleanups = Append(@, hook)]

\* ----------------------------------------------------------- the wrapper T
NoT == [created |-> FALSE, failed |-> FALSE, tracer |-> "nil", spectra |-> "nil", err |-> ""]

\* Mutant: the failed flag is not written.
setFailed_Dropped(h) ==
    IF ~h.returned THEN h ELSE Did(h, "setFailed", "", "")

setFailed(h) ==
    IF ~h.returned THEN h
    ELSE Did([h EXCEPT !.w.failed = TRUE], "setFailed", "", "")

\* Mutant: hasFailed does not read the flag.
hasFailed_Unread(h) == FALSE

hasFailed(h) == h.w.failed

\* Mutant: the logs-disabled test is inverted.
recordLog_Inverted(h, message, level) ==
    IF h.w.spectra # "nil" /\ ~sp.config.DisableLogs
    THEN h
    ELSE SpanAddEvent(h, logEventName, message, level)

\* Mutant: the logs-disabled test is missing.
recordLog_Ungated(h, message, level) ==
    SpanAddEvent(h, logEventName, message, level)

recordLog(h, message, level) ==
    IF h.w.spectra # "nil" /\ sp.config.DisableLogs
    THEN h
    ELSE SpanAddEvent(h, logEventName, message, level)

\* Mutant: the skipped case is tested before the failed case.
determineStatus_SkipFirst(h) ==
    CASE h.tb.skipped -> <<codesOk, "test skipped", statusSkip>>
      [] hasFailed(h) \/ h.tb.failed -> <<codesError, "test failed", statusFail>>
      [] OTHER -> <<codesOk, "test passed", statusPass>>

determineStatus(h) ==
    CASE hasFailed(h) \/ h.tb.failed -> <<codesError, "test failed", statusFail>>
      [] h.tb.skipped -> <<codesOk, "test skipped", statusSkip>>
      [] OTHER -> <<codesOk, "test passed", statusPass>>

\* Mutant: the wrapper's failed flag is read in place of tb.Failed().
determineSubtestStatus_WrapperFlag(h) ==
    CASE hasFailed(h) -> <<codesError, "subtest failed">>
      [] h.tb.skipped -> <<codesOk, "subtest skipped">>
      [] OTHER -> <<codesOk, "subtest passed">>

determineSubtestStatus(h) ==
    CASE h.tb.failed -> <<codesError, "subtest failed">>
      [] h.tb.skipped -> <<codesOk, "subtest skipped">>
      [] OTHER -> <<codesOk, "subtest passed">>

\* ------------------------------------------------------ metrics registry
\* faulty: the instruments are ones whose Record and Add panic.
NoMetrics == [set |-> FALSE, faulty |-> FALSE, duration |-> EmptyBag, count |-> EmptyBag]

Attrs(testName, status) == [name |-> testName, status |-> status]

\* Mutant: the counter is incremented without the status label.
recordTestMetrics_CountUnlabelled(h, testName, status) ==
    IF ~h.returned THEN h
    ELSE LET h1 == Did([h EXCEPT !.fin.recs = @ + 1, !.fin.label = status],
                       "recordTestMetrics", testName, status)
         IN IF ~h1.metrics.set
            THEN h1
            ELSE IF h1.metrics.faulty
            THEN [h1 EXCEPT !.fin.panicked = TRUE, !.returned = FALSE]
            ELSE [h1 EXCEPT
                    !.metrics.duration = @ (+) SetToBag({Attrs(testName, status)}),
                    !.metrics.count = @ (+) SetToBag({Attrs(testName, "")})]

recordTestMetrics(h, testName, status) ==
    IF ~h.returned THEN h
    ELSE LET h1 == Did([h EXCEPT !.fin.recs = @ + 1, !.fin.label = status],
                       "recordTestMetrics", testName, status)
         IN IF ~h1.metrics.set
            THEN h1
            ELSE IF h1.metrics.faulty
            THEN [h1 EXCEPT !.fin.panicked = TRUE, !.returned = FALSE]
            ELSE [h1 EXCEPT
                    !.metrics.duration = @ (+) SetToBag({Attrs(testName, status)}),
                    !.metrics.count = @ (+) SetToBag({Attrs(testName, status)})]

\* -------------------------------------------------------- wrapper methods
\* Mutant: the span is ended before its status is set.
finalize_EndFirst(h) ==
    LET st == determineStatus(h)
        h1 == SpanEnd([h EXCEPT !.fin.runs = @ + 1, !.fin.ends = @ + 1])
        h2 == SpanSetStatus([h1 EXCEPT !.fin.sets = @ + 1], st[1], st[2])
    IN recordTestMetrics(h2, h.span.name, st[3])

\* Mutant: the closure does nothing on a Session that is shut down.
finalize_UnlessShutdown(h) ==
    LET st == determineStatus(h)
        h1 == SpanSetStatus([h EXCEPT !.fin.runs = @ + 1, !.fin.sets = @ + 1], st[1], st[2])
        h2 == SpanEnd([h1 EXCEPT !.fin.ends = @ + 1])
    IN IF sp.shutdown THEN h ELSE recordTestMetrics(h2, h.span.name, st[3])

\* The closure New hands to tb.Cleanup.
finalize(h) ==
    LET st == determineStatus(h)
        h1 == SpanSetStatus([h EXCEPT !.fin.runs = @ + 1, !.fin.sets = @ + 1], st[1], st[2])
        h2 == SpanEnd([h1 EXCEPT !.fin.ends = @ + 1])
    IN recordTestMetrics(h2, h.span.name, st[3])

\* The closure Run hands to innerT.Cleanup.
finalizeSub(h) ==
    LET st == determineSubtestStatus(h)
        h1 == SpanSetStatus([h EXCEPT !.fin.runs = @ + 1, !.fin.sets = @ + 1], st[1], st[2])
    IN SpanEnd([h1 EXCEPT !.fin.ends = @ + 1])

\* The closure Teardown hands to t.Cleanup: a span named Name()+"/teardown"
\* under t.ctx, the caller's function, and the deferred span.End().
teardown(h) ==
    LET s == [name |-> h.span.name \o spanTeardown, parent |-> h.span.name,
              attrs |-> {<<attrTestPhase, "teardown">>}, ended |-> FALSE, fn |-> 0]
        n == Len(h.aux.spans) + 1
        h1 == Did([h EXCEPT !.aux.spans = Append(@, s)], "Start", s.name, s.parent)
        h2 == Did([h1 EXCEPT !.aux.spans[n].fn = @ + 1], "fn", s.name, "")
    IN Did([h2 EXCEPT !.aux.spans[n].ended = TRUE], "End", s.name, "")

\* Mutant: Teardown runs the function at once.
TeardownBody_Immediate(h) == teardown([h EXCEPT !.aux.given = @ + 1])

\* Teardown(fn): t.Cleanup(closure).
TeardownBody(h) ==
    Did(TbCleanup([h EXCEPT !.aux.given = @ + 1], "teardown"), "Cleanup", "teardown", "")

\* Mutant: tt.Parallel() is called before the event is appended.
ParallelBody_ForwardFirst(h) ==
    IF h.tb.kind # "T" THEN h ELSE SpanAddParallel(TbCall(h, "Parallel"))

\* Parallel: nothing on a handle that is not a *testing.T; else the parallel
\* event, then tt.Parallel().
ParallelBody(h) ==
    IF h.tb.kind # "T" THEN h ELSE TbCall(SpanAddParallel(h), "Parallel")

LogBody(h, message, method) ==
    recordLog(TbCall(h, method), message, levelInfo)

\* Mutant: the call is forwarded before the failed flag is set.
ErrorBody_ForwardFirst(h, message, method) ==
    recordLog(setFailed(TbCall(h, method)), message, levelError)

ErrorBody(h, message, method) ==
    recordLog(TbCall(setFailed(h), method), message, levelError)

\* Mutant: the call is forwarded before the bookkeeping.
FatalBody_ForwardFirst(h, message, method) ==
    SpanSetStatus(recordLog(setFailed(TbCall(h, method)), message, levelFatal),
                  codesError, "test fatal")

\* Mutant: the failed flag is not set.
FatalBody_NoFlag(h, message, method) ==
    TbCall(SpanSetStatus(recordLog(h, message, levelFatal), codesError, "test fatal"),
           method)

FatalBody(h, message, method) ==
    TbCall(SpanSetStatus(recordLog(setFailed(h), message, levelFatal),
                         codesError, "test fatal"),
           method)

\* Mutant: a skip sets the failed flag.
SkipBody_MarksFailed(h, message, method) ==
    TbCall(SpanSetStatus(recordLog(setFailed(h), message, levelSkip),
                         codesOk, "test skipped"),
           method)

SkipBody(h, message, method) ==
    TbCall(SpanSetStatus(recordLog(h, message, levelSkip), codesOk, "test skipped"),
           method)

\* names the tests give the spans they start with StartSpan
SpanNames == {"custom-operation"}

\* Mutant: the span is ended when StartSpan returns.
StartSpanBody_Ended(h, name) ==
    LET s == [name |-> name, parent |-> h.span.name, ended |-> TRUE, code |-> codesUnset]
    IN Did(Did([h EXCEPT !.aux.adhoc = Append(@, s)], "Start", name, s.parent),
           "End", name, "")

\* StartSpan(name): t.tracer.Start(t.ctx, name); the span goes to the caller.
StartSpanBody(h, name) ==
    LET s == [name |-> name, parent |-> h.span.name, ended |-> FALSE, code |-> codesUnset]
    IN Did([h EXCEPT !.aux.adhoc = Append(@, s)], "Start", name, s.parent)

\* The caller ends the i-th span StartSpan returned to it.
CallerEnd(h, i) ==
    Did([h EXCEPT !.aux.adhoc[i].ended = TRUE], "End", h.aux.adhoc[i].name, "")

\* What the function handed to Setup does: nothing that concerns the wrapper,
\* or a Fatal on it.
SetupFns == {"returns", "Fatal"}

\* Mutant: the setup span is ended after fn, not by a deferred call.
SetupBody_NoDefer(h, fn) ==
    LET s == [name |-> h.span.name \o spanSetup, parent |-> h.span.name,
              attrs |-> {<<attrTestPhase, "setup">>}, ended |-> FALSE, fn |-> 0]
        n == Len(h.aux.setups) + 1
        h1 == Did([h EXCEPT !.aux.setups = Append(@, s)], "Start", s.name, s.parent)
        h2 == Did([h1 EXCEPT !.aux.setups[n].fn = @ + 1], "fn", s.name, "")
        h3 == IF fn = "Fatal" THEN FatalBody(h2, "setup failed", "Fatal") ELSE h2
    IN IF h3.returned THEN Did([h3 EXCEPT !.aux.setups[n].ended = TRUE], "End", s.name, "")
       ELSE h3

\* Setup(fn): a span named Name()+"/setup" under t.ctx, the deferred
\* span.End(), and fn; the deferred call runs also when fn does not return.
SetupBody(h, fn) ==
    LET s == [name |-> h.span.name \o spanSetup, parent |-> h.span.name,
              attrs |-> {<<attrTestPhase, "setup">>}, ended |-> FALSE, fn |-> 0]
        n == Len(h.aux.setups) + 1
        h1 == Did([h EXCEPT !.aux.setups = Append(@, s)], "Start", s.name, s.parent)
        h2 == Did([h1 EXCEPT !.aux.setups[n].fn = @ + 1], "fn", s.name, "")
        h3 == IF fn = "Fatal" THEN FatalBody(h2, "setup failed", "Fatal") ELSE h2
    IN Did([h3 EXCEPT !.aux.setups[n].ended = TRUE], "End", s.name, "")

\* FailNow and SkipNow: Fatal and Skip with a fixed message.
FailNowBody(h) == FatalBody(h, "test failed", "FailNow")

SkipNowBody(h) == SkipBody(h, "test skipped", "SkipNow")

\* Mutant: Run on a handle that is not a *testing.T returns false and nothing
\* else.
RunRefuse_NoFatal(h) == Did(h, "return", "false", "")

\* Run on a wrapper whose handle is not a *testing.T.
RunRefuse(h) ==
    LET h1 == FatalBody(h, "spectra: Run() requires *testing.T, not *testing.B", "Fatal")
    IN IF h1.returned THEN Did(h1, "return", "false", "") ELSE h1

\* Mutant: the child span is started under context.Background().
RunBody_Detached(h, t, c) ==
    LET h1 == Did([h EXCEPT !.span = StartedSpan(c, "background",
                                        {<<attrTestName, c>>, <<attrTestParent, t>>})],
                  "Start", c, "background")
        h2 == [h1 EXCEPT !.w = [created |-> TRUE, failed |-> FALSE, tracer |-> ts[t].tracer,
                                spectra |-> ts[t].spectra, err |-> ""]]
    IN TbCleanup(h2, "finalizeSub")

\* Mutant: the child wrapper is built without the Session reference.
RunBody_NoSession(h, t, c) ==
    LET h1 == Did([h EXCEPT !.span = StartedSpan(c, spans[t].name,
                                        {<<attrTestName, c>>, <<attrTestParent, t>>})],
                  "Start", c, spans[t].name)
        h2 == [h1 EXCEPT !.w = [created |-> TRUE, failed |-> FALSE, tracer |-> ts[t].tracer,
                                spectra |-> "nil", err |-> ""]]
    IN TbCleanup(h2, "finalizeSub")

\* The function Run hands to tt.Run, up to the call of f: for the subtest c
\* (innerT.Name()) of test t it starts the child span under t.ctx, builds
\* the child wrapper and registers the child's finalization.
RunBody(h, t, c) ==
    LET h1 == Did([h EXCEPT !.span = StartedSpan(c, spans[t].name,
                                        {<<attrTestName, c>>, <<attrTestParent, t>>})],
                  "Start", c, spans[t].name)
        h2 == [h1 EXCEPT !.w = [created |-> TRUE, failed |-> FALSE, tracer |-> ts[t].tracer,
                                spectra |-> ts[t].spectra, err |-> ""]]
    IN TbCleanup(h2, "finalizeSub")

\* ------------------------------------------------------------ the Session
\* The Session a successful Init(opts...) returns for configuration cfg.
InitSession(cfg) ==
    [config |-> cfg, initialized |-> TRUE, shutdown |-> FALSE,
     tracerProvider |-> IF cfg.DisableTraces THEN "nil" ELSE "live",
     tracer |-> IF cfg.DisableTraces THEN "nil" ELSE "sdk",
     meterProvider |-> IF cfg.DisableMetrics THEN "nil" ELSE "live"]

\* The Session of a nil *Spectra: it has no field to read.
NilSession == [nil |-> TRUE]

\* The Session &Spectra{}, never initialized: every field has its zero value.
ZeroSession ==
    [config |-> [DisableLogs |-> FALSE, DisableTraces |-> FALSE, DisableMetrics |-> FALSE],
     initialized |-> FALSE, shutdown |-> FALSE,
     tracerProvider |-> "nil", tracer |-> "nil", meterProvider |-> "nil"]

\* The registry after that Init: set by initMetrics unless metrics are disabled.
InitMetrics(cfg) == [NoMetrics EXCEPT !.set = ~cfg.DisableMetrics]

\* given: the functions handed to Teardown; spans: the spans started for them;
\* setups: the spans Setup started; adhoc: the spans StartSpan returned.
NoAux == [given |-> 0, spans |-> <<>>, setups |-> <<>>, adhoc |-> <<>>]

NoFin == [runs |-> 0, sets |-> 0, ends |-> 0, recs |-> 0, label |-> "", panicked |-> FALSE]

\* ------------------------------------------------------------------ Init
HasPrefix(str, prefix) ==
    Len(str) >= Len(prefix) /\ SubSeq(str, 1, Len(prefix)) = prefix

TrimPrefix(str, prefix) ==
    IF HasPrefix(str, prefix) THEN SubSeq(str, Len(prefix) + 1, Len(str)) ELSE str

schemeGRPC == <<"g", "r", "p", "c", ":", "/", "/">>
schemeHTTP == <<"h", "t", "t", "p", ":", "/", "/">>
schemeHTTPS == <<"h", "t", "t", "p", "s", ":", "/", "/">>

\* parseProtocol: <<protocol, endpoint without the scheme, error>>
parseProtocol(endpoint) ==
    CASE HasPrefix(endpoint, schemeGRPC) -> <<"grpc", TrimPrefix(endpoint, schemeGRPC), "">>
      [] HasPrefix(endpoint, schemeHTTP) -> <<"http", TrimPrefix(endpoint, schemeHTTP), "">>
      [] HasPrefix(endpoint, schemeHTTPS) -> <<"https", TrimPrefix(endpoint, schemeHTTPS), "">>
      [] OTHER -> <<"", << >>, "ErrInvalidEndpoint">>

\* Mutant: the endpoint is not tested.
validateConfig_NoEndpoint(cfg) ==
    IF cfg.ServiceName = "" THEN "ErrMissingServiceName" ELSE ""

\* validateConfig: the error it returns, "" for nil.
validateConfig(cfg) ==
    CASE cfg.ServiceName = "" -> "ErrMissingServiceName"
      [] cfg.Endpoint = << >> -> "ErrMissingEndpoint"
      [] OTHER -> ""

ConfigOf(o) ==
    [DisableLogs |-> o.DisableLogs, DisableTraces |-> o.DisableTraces,
     DisableMetrics |-> o.DisableMetrics]

NoOtel == [tracerProvider |-> "none", meterProvider |-> "none"]

NoReg == [once |-> [done |-> FALSE, holder |-> "none"], bodyRuns |-> 0, stored |-> 0]

\* What an Init call has returned: the Session (nil with an error), the
\* error, and the providers the call created.
NoResult == [sp |-> NilSession, err |-> "", made |-> [tp |-> "nil", mp |-> "nil"]]

\* A caller that is not in an Init call.
IdleInit ==
    [pc |-> "idle", cfg |-> NoOpts, tp |-> "nil", mp |-> "nil", initErr |-> "",
     n |-> 0, res |-> NoResult]

\* sp of an Init call in state i: the Spectra built so far.
SessionOf(i) ==
    [config |-> ConfigOf(i.cfg), initialized |-> TRUE, shutdown |-> FALSE,
     tracerProvider |-> i.tp, tracer |-> IF i.tp = "nil" THEN "nil" ELSE "sdk",
     meterProvider |-> i.mp]

\* The Init call in state i returns (session, err).
Returned(i, session, err) ==
    [IdleInit EXCEPT !.n = i.n,
                     !.res = [sp |-> session, err |-> err,
                              made |-> [tp |-> i.tp, mp |-> i.mp]]]

\* The process after the Init that returned the Session of configuration cfg.
OtelAfter(cfg) ==
    [tracerProvider |-> IF cfg.DisableTraces THEN "none" ELSE "main",
     meterProvider |-> IF cfg.DisableMetrics THEN "none" ELSE "main"]

RegAfter(cfg) ==
    [once |-> [done |-> ~cfg.DisableMetrics, holder |-> "none"],
     bodyRuns |-> IF cfg.DisableMetrics THEN 0 ELSE 1,
     stored |-> IF cfg.DisableMetrics THEN 0 ELSE 1]

\* Nothing has been called yet: no Shutdown, no New.
Fresh ==
    /\ ini = [c \in Callers |-> IdleInit]
    /\ once = [done |-> FALSE, holder |-> "none"]
    /\ pc = [c \in Callers |-> "idle"]
    /\ scalls = [c \in Callers |-> 0]
    /\ sd = [bodyRuns |-> 0, flagSets |-> 0, tracerReleases |-> 0, meterReleases |-> 0, logged |-> <<>>]
    /\ tbs = [t \in Tests |-> NewHandle(NoKind)]
    /\ ts = [t \in Tests |-> NoT]
    /\ spans = [t \in Tests |-> NoSpan]
    /\ phase = [t \in Tests |-> "idle"]
    /\ calls = [t \in Tests |-> 0]
    /\ hist = [t \in Tests |-> {}]
    /\ fin = [t \in Tests |-> NoFin]
    /\ aux = [t \in Tests |-> NoAux]
    /\ last = [op |-> "", t |-> "", steps |-> <<>>]
    /\ mu = [t \in Tests |-> "free"]
    /\ helper = [pc |-> "idle", n |-> 0]

\* A Session a successful Init returned, of any configuration.
Init ==
    /\ \E cfg \in Configs :
          /\ sp = InitSession(cfg) /\ testMetrics = InitMetrics(cfg)
          /\ otel = OtelAfter(cfg) /\ reg = RegAfter(cfg)
    /\ Fresh

\* Any Session a test may hold: nil, never initialized, or initialized.
InitNew ==
    /\ \/ /\ sp \in {NilSession, ZeroSession} /\ testMetrics = NoMetrics
          /\ otel = NoOtel /\ reg = NoReg
       \/ \E cfg \in Configs :
             /\ sp = InitSession(cfg) /\ testMetrics = InitMetrics(cfg)
             /\ otel = OtelAfter(cfg) /\ reg = RegAfter(cfg)
    /\ Fresh

\* A Session a successful Init returned, in a process whose metrics provider
\* hands out instruments that panic when they record.
InitFaulty ==
    /\ \E cfg \in Configs :
          /\ sp = InitSession(cfg)
          /\ testMetrics = [InitMetrics(cfg) EXCEPT !.faulty = ~cfg.DisableMetrics]
          /\ otel = OtelAfter(cfg) /\ reg = RegAfter(cfg)
    /\ Fresh

\* The Session of the second successful Init of a process: the first Init,
\* of configuration cfg0, has installed its providers and, with metrics
\* enabled, has initialized the registry.
InitSecond ==
    /\ \E cfg0 \in Configs, cfg \in Configs :
          /\ sp = InitSession(cfg)
          /\ testMetrics = [NoMetrics EXCEPT !.set = ~cfg0.DisableMetrics \/ ~cfg.DisableMetrics]
          /\ otel = [tracerProvider |-> IF ~cfg.DisableTraces THEN "main"
                                        ELSE IF ~cfg0.DisableTraces THEN "other" ELSE "none",
                     meterProvider |-> IF ~cfg.DisableMetrics THEN "main"
                                       ELSE IF ~cfg0.DisableMetrics THEN "other" ELSE "none"]
          /\ reg = IF ~cfg0.DisableMetrics THEN RegAfter(cfg0) ELSE RegAfter(cfg)
    /\ Fresh

\* The process before its first Init call.
InitProcess ==
    /\ sp = NilSession /\ testMetrics = NoMetrics
    /\ otel = NoOtel /\ reg = NoReg
    /\ Fresh

\* ---------------------------------------------------------------- actions
\* The handler's result is written back.
Commit(t, op, h) ==
    /\ ts' = [ts EXCEPT ![t] = h.w]
    /\ spans' = [spans EXCEPT ![t] = h.span]
    /\ tbs' = FailUp([tbs EXCEPT ![t] = h.tb], t)
    /\ fin' = [fin EXCEPT ![t] = h.fin]
    /\ aux' = [aux EXCEPT ![t] = h.aux]
    /\ testMetrics' = h.metrics
    /\ last' = [op |-> op, t |-> t, steps |-> h.steps]

\* A call the running test body makes.  A forwarded call that does not return
\* ends the test function, and the runner goes on to the cleanups.
Invoke(t, op, h) ==
    /\ phase[t] = "running"
    /\ calls[t] < MaxCalls
    /\ calls' = [calls EXCEPT ![t] = @ + 1]
    /\ hist' = [hist EXCEPT ![t] = @ \cup {op}]
    /\ Commit(t, op, h)
    /\ phase' = [phase EXCEPT ![t] =
                    IF h.returned THEN @
                    ELSE IF h.tb.cleanups = <<>> THEN "done" ELSE "exited"]
    /\ UNCHANGED <<sessionVars, helperVars>>

\* Mutant: the shutdown flag is tested before the initialized flag.
NewCheck_ShutdownFirst(t) ==
    /\ phase[t] = "idle"
    /\ \E kind \in Kinds : tbs' = [tbs EXCEPT ![t] = NewHandle(kind)]
    /\ IF sp # NilSession /\ sp.shutdown
       THEN /\ ts' = [ts EXCEPT ![t].err = "ErrAlreadyShutdown"]
            /\ UNCHANGED phase
       ELSE IF sp = NilSession \/ ~sp.initialized
       THEN /\ ts' = [ts EXCEPT ![t].err = "ErrNotInitialized"]
            /\ UNCHANGED phase
       ELSE /\ phase' = [phase EXCEPT ![t] = "checked"]
            /\ UNCHANGED ts
    /\ last' = [op |-> "New", t |-> t, steps |-> <<>>]
    /\ UNCHANGED <<sessionVars, helperVars, testMetrics, spans, calls, hist, fin, aux>>

\* Spectra.New(tb), up to the release of the read lock: the two checks.  The
\* handle tb the test passes is of any kind.
NewCheck(t) ==
    /\ phase[t] = "idle"
    /\ \E kind \in Kinds : tbs' = [tbs EXCEPT ![t] = NewHandle(kind)]
    /\ IF sp = NilSession \/ ~sp.initialized
       THEN /\ ts' = [ts EXCEPT ![t].err = "ErrNotInitialized"]
            /\ UNCHANGED phase
       ELSE IF sp.shutdown
       THEN /\ ts' = [ts EXCEPT ![t].err = "ErrAlreadyShutdown"]
            /\ UNCHANGED phase
       ELSE /\ phase' = [phase EXCEPT ![t] = "checked"]
            /\ UNCHANGED ts
    /\ last' = [op |-> "New", t |-> t, steps |-> <<>>]
    /\ UNCHANGED <<sessionVars, helperVars, testMetrics, spans, calls, hist, fin, aux>>

\* Mutant: the finalization hook is not registered.
NewBody_NoCleanup(h, name) ==
    LET tracer == IF sp.tracer = "nil" THEN "global" ELSE sp.tracer
        h1 == Did([h EXCEPT !.span = StartedSpan(name, "background", {<<attrTestName, name>>})],
                  "Start", name, "background")
    IN [h1 EXCEPT !.w = [created |-> TRUE, failed |-> FALSE, tracer |-> tracer,
                         spectra |-> "sp", err |-> ""]]

\* Mutant: the Session's tracer is used without the fallback.
NewBody_NoFallback(h, name) ==
    LET h1 == Did([h EXCEPT !.span = StartedSpan(name, "background", {<<attrTestName, name>>})],
                  "Start", name, "background")
        h2 == [h1 EXCEPT !.w = [created |-> TRUE, failed |-> FALSE, tracer |-> sp.tracer,
                                spectra |-> "sp", err |-> ""]]
    IN TbCleanup(h2, "finalize")

\* Mutant: the span is started under the context of the main test's span.
NewBody_Nested(h, name) ==
    LET tracer == IF sp.tracer = "nil" THEN "global" ELSE sp.tracer
        h1 == Did([h EXCEPT !.span = StartedSpan(name, MainTest, {<<attrTestName, name>>})],
                  "Start", name, MainTest)
        h2 == [h1 EXCEPT !.w = [created |-> TRUE, failed |-> FALSE, tracer |-> tracer,
                                spectra |-> "sp", err |-> ""]]
    IN TbCleanup(h2, "finalize")

\* What New builds once the checks have passed.
NewBody(h, name) ==
    LET tracer == IF sp.tracer = "nil" THEN "global" ELSE sp.tracer
        h1 == Did([h EXCEPT !.span = StartedSpan(name, "background", {<<attrTestName, name>>})],
                  "Start", name, "background")
        h2 == [h1 EXCEPT !.w = [created |-> TRUE, failed |-> FALSE, tracer |-> tracer,
                                spectra |-> "sp", err |-> ""]]
    IN TbCleanup(h2, "finalize")

\* Spectra.New, after the checks: start the span, build the wrapper, register
\* the finalization hook.
NewStart(t) ==
    /\ phase[t] = "checked"
    /\ Commit(t, "New", NewBody(H(t), t))
    /\ phase' = [phase EXCEPT ![t] = "running"]
    /\ UNCHANGED <<sessionVars, helperVars, calls, hist>>

Log(t) == \E m \in Msgs : Invoke(t, "Log", LogBody(H(t), m, "Log"))
Logf(t) == \E m \in Msgs : Invoke(t, "Logf", LogBody(H(t), m, "Logf"))
\* t.mu is free: setFailed and hasFailed wait for it.
Unlocked(t) == mu[t] = "free"

Error(t) == Unlocked(t) /\ \E m \in Msgs : Invoke(t, "Error", ErrorBody(H(t), m, "Error"))
Errorf(t) == Unlocked(t) /\ \E m \in Msgs : Invoke(t, "Errorf", ErrorBody(H(t), m, "Errorf"))
Fatal(t) == Unlocked(t) /\ \E m \in Msgs : Invoke(t, "Fatal", FatalBody(H(t), m, "Fatal"))
Fatalf(t) == Unlocked(t) /\ \E m \in Msgs : Invoke(t, "Fatalf", FatalBody(H(t), m, "Fatalf"))
Skip(t) == \E m \in Msgs : Invoke(t, "Skip", SkipBody(H(t), m, "Skip"))
Skipf(t) == \E m \in Msgs : Invoke(t, "Skipf", SkipBody(H(t), m, "Skipf"))
FailNow(t) == Unlocked(t) /\ Invoke(t, "FailNow", FailNowBody(H(t)))
SkipNow(t) == Invoke(t, "SkipNow", SkipNowBody(H(t)))

Teardown(t) == Invoke(t, "Teardown", TeardownBody(H(t)))

StartSpan(t) == \E name \in SpanNames : Invoke(t, "StartSpan", StartSpanBody(H(t), name))

\* span.End() in the test body, on a span StartSpan returned.
EndSpan(t) ==
    \E i \in 1..Len(aux[t].adhoc) :
        /\ ~aux[t].adhoc[i].ended
        /\ Invoke(t, "span.End", CallerEnd(H(t), i))

Setup(t) ==
    \E fn \in SetupFns :
        /\ fn = "Fatal" => Unlocked(t)
        /\ Invoke(t, "Setup", SetupBody(H(t), fn))

\* The test body signals on the underlying handle, not through the wrapper.
Direct(t) ==
    \E method \in {"Error", "Fatal", "Skip"} :
        Invoke(t, "tb." \o method, TbCall(H(t), method))

\* The test function returns (with the mock: the test calls runCleanups).
Exit(t) ==
    /\ phase[t] = "running"
    /\ phase' = [phase EXCEPT ![t] = IF tbs[t].cleanups = <<>> THEN "done" ELSE "exited"]
    /\ last' = [op |-> "Exit", t |-> t, steps |-> <<>>]
    /\ UNCHANGED <<sessionVars, helperVars, testMetrics, tbs, ts, spans, calls, hist, fin, aux>>

\* Run(name, f) on the wrapper of test t.  On a handle that is not a
\* *testing.T it forces a Fatal.  On a *testing.T, tt.Run creates the subtest
\* and runs the function Run handed it, and the caller waits for the subtest.
Run(t) ==
    IF tbs[t].kind # "T"
    THEN Unlocked(t) /\ Invoke(t, "Run", RunRefuse(H(t)))
    ELSE \E name \in SubNames :
            LET c == Child(t, name)
                h == RunBody([H(c) EXCEPT !.tb = NewHandle(KindT)], t, c)
            IN /\ phase[t] = "running"
               /\ calls[t] < MaxCalls
               /\ c \in Tests /\ phase[c] = "idle"
               /\ calls' = [calls EXCEPT ![t] = @ + 1]
               /\ hist' = [hist EXCEPT ![t] = @ \cup {"Run"}]
               /\ Commit(c, "RunStart", h)
               /\ phase' = [phase EXCEPT ![t] = "waiting", ![c] = "running"]
               /\ UNCHANGED <<sessionVars, helperVars>>

\* tt.Run returns to the caller: the subtest is complete, or it has called
\* Parallel.  It returns whether the subtest has not failed.
RunReturn(t) ==
    /\ phase[t] = "waiting"
    /\ \E c \in Children(t) :
          /\ phase[c] \in {"done", "paused"}
          /\ last' = [op |-> "RunReturn", t |-> t,
                      steps |-> <<Step("return", ~tbs[c].failed, c)>>]
    /\ phase' = [phase EXCEPT ![t] = "running"]
    /\ UNCHANGED <<sessionVars, helperVars, testMetrics, tbs, ts, spans, calls, hist, fin, aux>>

\* Parallel() on the wrapper of test t, once in a test.  tt.Parallel() of a
\* subtest pauses it until the function of its parent has returned.
Parallel(t) ==
    /\ "Parallel" \notin hist[t]
    /\ IF t \in Subtests /\ tbs[t].kind = "T"
       THEN /\ phase[t] = "running"
            /\ calls[t] < MaxCalls
            /\ calls' = [calls EXCEPT ![t] = @ + 1]
            /\ hist' = [hist EXCEPT ![t] = @ \cup {"Parallel"}]
            /\ Commit(t, "Parallel", ParallelBody(H(t)))
            /\ phase' = [phase EXCEPT ![t] = "paused", ![Parent(t)] = "running"]
            /\ UNCHANGED <<sessionVars, helperVars>>
       ELSE Invoke(t, "Parallel", ParallelBody(H(t)))

\* The runner releases a paused parallel subtest once the function of its
\* parent has returned.
Resume(t) ==
    /\ phase[t] = "paused"
    /\ phase[Parent(t)] = "exited"
    /\ phase' = [phase EXCEPT ![t] = "running"]
    /\ last' = [op |-> "Resume", t |-> t, steps |-> <<>>]
    /\ UNCHANGED <<sessionVars, helperVars, testMetrics, tbs, ts, spans, calls, hist, fin, aux>>

\* The functions a test registers on its handle itself, before it calls New:
\* each makes one call on the wrapper.
LateHooks == {"late.Log", "late.Fatal"}

\* The test calls tb.Cleanup(f) on the handle before New registers its
\* closure there; f calls the wrapper.
LateCleanup(t) ==
    /\ phase[t] = "checked"
    /\ tbs[t].cleanups = <<>>
    /\ \E hook \in LateHooks : tbs' = [tbs EXCEPT ![t] = TbCleanup(H(t), hook).tb]
    /\ last' = [op |-> "tb.Cleanup", t |-> t, steps |-> <<>>]
    /\ UNCHANGED <<sessionVars, helperVars, testMetrics, ts, spans, phase, calls, hist, fin, aux>>

\* A registered cleanup hook, run on the handler state.
RunHook(h, hook) ==
    CASE hook = "finalize" -> finalize(h)
      [] hook = "finalizeSub" -> finalizeSub(h)
      [] hook = "teardown" -> teardown(h)
      [] hook = "late.Log" -> LogBody(h, "m", "Log")
      [] hook = "late.Fatal" -> FatalBody(h, "m", "Fatal")
      [] OTHER -> h

\* The runner runs the cleanup registered last and drops it; it runs the
\* cleanups of a test once the subtests of the test are complete.
RunCleanup(t) ==
    /\ phase[t] = "exited"
    /\ \A c \in Children(t) : phase[c] \in {"idle", "done"}
    /\ tbs[t].cleanups # <<>>
    /\ tbs[t].cleanups[Len(tbs[t].cleanups)] = "finalize" => Unlocked(t)
    /\ LET n == Len(tbs[t].cleanups)
           h0 == [H(t) EXCEPT !.tb.cleanups = SubSeq(@, 1, n - 1)]
           h == RunHook(h0, tbs[t].cleanups[n])
       IN /\ Commit(t, tbs[t].cleanups[n], h)
          /\ phase' = [phase EXCEPT ![t] = IF h.tb.cleanups = <<>> THEN "done" ELSE "exited"]
    /\ UNCHANGED <<sessionVars, helperVars, calls, hist>>

\* A goroutine the test started calls Error on the wrapper of test t, while
\* the test runs or after it.
HelperCall(t) ==
    /\ helper.pc = "idle"
    /\ helper.n < MaxHelperCalls
    /\ ts[t].created
    /\ helper' = [pc |-> "lock", n |-> helper.n + 1]
    /\ UNCHANGED <<sessionVars, testMetrics, tbs, ts, spans, phase, calls, hist, fin, aux,
                   last, mu>>

\* setFailed in that goroutine: t.mu.Lock()
HelperLock(t) ==
    /\ helper.pc = "lock"
    /\ Unlocked(t)
    /\ mu' = [mu EXCEPT ![t] = "helper"]
    /\ helper' = [helper EXCEPT !.pc = "set"]
    /\ UNCHANGED <<sessionVars, testMetrics, tbs, ts, spans, phase, calls, hist, fin, aux,
                   last>>

\* setFailed in that goroutine: t.failed = true
HelperSet(t) ==
    /\ helper.pc = "set"
    /\ Commit(t, "go.setFailed", setFailed(H(t)))
    /\ helper' = [helper EXCEPT !.pc = "unlock"]
    /\ UNCHANGED <<sessionVars, phase, calls, hist, mu>>

\* setFailed in that goroutine: the deferred t.mu.Unlock()
HelperUnlock(t) ==
    /\ helper.pc = "unlock"
    /\ mu' = [mu EXCEPT ![t] = "free"]
    /\ helper' = [helper EXCEPT !.pc = "forward"]
    /\ UNCHANGED <<sessionVars, testMetrics, tbs, ts, spans, phase, calls, hist, fin, aux,
                   last>>

\* The rest of Error in that goroutine: t.tb.Error and recordLog.  The Error
\* of a runner's handle panics once the test is complete.
HelperForward(t) ==
    /\ helper.pc = "forward"
    /\ \E m \in Msgs :
          LET h == TbCall(H(t), "Error")
              h1 == IF phase[t] = "done" /\ tbs[t].kind \in {"T", "B"}
                    THEN [H(t) EXCEPT !.returned = FALSE]
                    ELSE h
          IN Commit(t, "go.Error", recordLog(h1, m, levelError))
    /\ helper' = [helper EXCEPT !.pc = "idle"]
    /\ UNCHANGED <<sessionVars, phase, calls, hist, mu>>

HelperStep(t) ==
    \/ HelperCall(t)
    \/ HelperLock(t)
    \/ HelperSet(t)
    \/ HelperUnlock(t)
    \/ HelperForward(t)

\* Shutdown: sync.Once.Do, fast path.  A call that finds the guard done returns.
ShutdownCall(c) ==
    /\ pc[c] = "idle"
    /\ scalls[c] < MaxShutdownCalls
    /\ scalls' = [scalls EXCEPT ![c] = @ + 1]
    /\ pc' = [pc EXCEPT ![c] = IF once.done THEN "idle" ELSE "once"]
    /\ UNCHANGED <<sp, once, sd, testMetrics, testVars, last, initVars>>

\* Mutant: the guard's done flag is not tested under its lock.
OnceEnter_Unguarded(c) ==
    /\ pc[c] = "once"
    /\ once.holder = "none"
    /\ pc' = [pc EXCEPT ![c] = "flag"]
    /\ once' = [once EXCEPT !.holder = c]
    /\ sd' = [sd EXCEPT !.bodyRuns = @ + 1]
    /\ UNCHANGED <<sp, scalls, testMetrics, testVars, last, initVars>>

\* sync.Once.Do, slow path: the caller takes the guard's lock (it waits while
\* another caller runs the body) and runs the body if it is still not done.
OnceEnter(c) ==
    /\ pc[c] = "once"
    /\ once.holder = "none"
    /\ IF once.done
       THEN /\ pc' = [pc EXCEPT ![c] = "idle"]
            /\ UNCHANGED <<once, sd>>
       ELSE /\ pc' = [pc EXCEPT ![c] = "flag"]
            /\ once' = [once EXCEPT !.holder = c]
            /\ sd' = [sd EXCEPT !.bodyRuns = @ + 1]
    /\ UNCHANGED <<sp, scalls, testMetrics, testVars, last, initVars>>

\* s.mu.Lock(); s.shutdown = true; s.mu.Unlock()
ShutdownFlag(c) ==
    /\ pc[c] = "flag"
    /\ sp' = [sp EXCEPT !.shutdown = TRUE]
    /\ sd' = [sd EXCEPT !.flagSets = @ + 1]
    /\ pc' = [pc EXCEPT ![c] = "tracer"]
    /\ UNCHANGED <<once, scalls, testMetrics, testVars, last, initVars>>

\* Mutant: Shutdown returns when releasing the tracer provider fails.
ShutdownTracer_StopOnError(c) ==
    /\ pc[c] = "tracer"
    /\ IF sp.tracerProvider = "nil"
       THEN /\ pc' = [pc EXCEPT ![c] = "meter"]
            /\ UNCHANGED <<sp, sd>>
       ELSE \E err \in BOOLEAN :
               /\ sp' = [sp EXCEPT !.tracerProvider = "shutdown"]
               /\ sd' = [sd EXCEPT !.tracerReleases = @ + 1,
                                   !.logged = IF err THEN Append(@, logTracer) ELSE @]
               /\ pc' = [pc EXCEPT ![c] = IF err THEN "exit" ELSE "meter"]
    /\ UNCHANGED <<once, scalls, testMetrics, testVars, last, initVars>>

\* s.tracerProvider.Shutdown(ctx), when there is a tracer provider; an error
\* is logged.
ShutdownTracer(c) ==
    /\ pc[c] = "tracer"
    /\ IF sp.tracerProvider = "nil"
       THEN UNCHANGED <<sp, sd>>
       ELSE \E err \in BOOLEAN :
               /\ sp' = [sp EXCEPT !.tracerProvider = "shutdown"]
               /\ sd' = [sd EXCEPT !.tracerReleases = @ + 1,
                                   !.logged = IF err THEN Append(@, logTracer) ELSE @]
    /\ pc' = [pc EXCEPT ![c] = "meter"]
    /\ UNCHANGED <<once, scalls, testMetrics, testVars, last, initVars>>

\* s.meterProvider.Shutdown(ctx), when there is a meter provider; an error is
\* logged.
ShutdownMeter(c) ==
    /\ pc[c] = "meter"
    /\ IF sp.meterProvider = "nil"
       THEN UNCHANGED <<sp, sd>>
       ELSE \E err \in BOOLEAN :
               /\ sp' = [sp EXCEPT !.meterProvider = "shutdown"]
               /\ sd' = [sd EXCEPT !.meterReleases = @ + 1,
                                   !.logged = IF err THEN Append(@, logMeter) ELSE @]
    /\ pc' = [pc EXCEPT ![c] = "exit"]
    /\ UNCHANGED <<once, scalls, testMetrics, testVars, last, initVars>>

\* The body has returned: sync.Once marks itself done and releases its lock.
OnceExit(c) ==
    /\ pc[c] = "exit"
    /\ once' = [done |-> TRUE, holder |-> "none"]
    /\ pc' = [pc EXCEPT ![c] = "idle"]
    /\ UNCHANGED <<sp, scalls, sd, testMetrics, testVars, last, initVars>>

Shutdown(c) ==
    \/ ShutdownCall(c)
    \/ OnceEnter(c)
    \/ ShutdownFlag(c)
    \/ ShutdownTracer(c)
    \/ ShutdownMeter(c)
    \/ OnceExit(c)

\* Init(opts...): the options are applied to config{}.
InitCall(c) ==
    /\ ini[c].pc = "idle"
    /\ ini[c].n < MaxInitCalls
    /\ \E o \in Opts :
          ini' = [ini EXCEPT ![c] = [IdleInit EXCEPT !.n = ini[c].n + 1, !.cfg = o,
                                                    !.pc = "validate"]]
    /\ UNCHANGED <<sp, once, pc, scalls, sd, otel, reg, testMetrics, testVars, last>>

\* Init: validateConfig, the Spectra literal and createResource.
InitValidate(c) ==
    /\ ini[c].pc = "validate"
    /\ \E resourceErr \in BOOLEAN :
          LET i == ini[c]
          IN ini' = [ini EXCEPT ![c] =
                CASE validateConfig(i.cfg) # "" ->
                        Returned(i, NilSession, validateConfig(i.cfg))
                  [] resourceErr -> Returned(i, NilSession, "create resource")
                  [] ~i.cfg.DisableTraces -> [i EXCEPT !.pc = "tracing"]
                  [] ~i.cfg.DisableMetrics -> [i EXCEPT !.pc = "metrics"]
                  [] OTHER -> Returned(i, SessionOf(i), "")]
    /\ UNCHANGED <<sp, once, pc, scalls, sd, otel, reg, testMetrics, testVars, last>>

\* setupTracing, and what Init does with its result.
setupTracing(c) ==
    /\ ini[c].pc = "tracing"
    /\ \E exporterErr \in BOOLEAN :
          LET i == ini[c]
              made == [i EXCEPT !.tp = "live"]
          IN IF parseProtocol(i.cfg.Endpoint)[3] # ""
             THEN /\ ini' = [ini EXCEPT ![c] =
                              Returned(i, NilSession, parseProtocol(i.cfg.Endpoint)[3])]
                  /\ UNCHANGED otel
             ELSE IF exporterErr
             THEN /\ ini' = [ini EXCEPT ![c] = Returned(i, NilSession, "create trace exporter")]
                  /\ UNCHANGED otel
             ELSE /\ otel' = [otel EXCEPT !.tracerProvider = c]
                  /\ ini' = [ini EXCEPT ![c] =
                              IF ~i.cfg.DisableMetrics
                              THEN [made EXCEPT !.pc = "metrics"]
                              ELSE Returned(made, SessionOf(made), "")]
    /\ UNCHANGED <<sp, once, pc, scalls, sd, reg, testMetrics, testVars, last>>

\* setupMetrics, up to otel.SetMeterProvider(mp).
setupMetrics(c) ==
    /\ ini[c].pc = "metrics"
    /\ \E exporterErr \in BOOLEAN :
          LET i == ini[c]
          IN IF parseProtocol(i.cfg.Endpoint)[3] # ""
             THEN /\ ini' = [ini EXCEPT ![c] =
                              Returned(i, NilSession, parseProtocol(i.cfg.Endpoint)[3])]
                  /\ UNCHANGED otel
             ELSE IF exporterErr
             THEN /\ ini' = [ini EXCEPT ![c] = Returned(i, NilSession, "create metric exporter")]
                  /\ UNCHANGED otel
             ELSE /\ otel' = [otel EXCEPT !.meterProvider = c]
                  /\ ini' = [ini EXCEPT ![c] = [i EXCEPT !.mp = "live", !.pc = "once"]]
    /\ UNCHANGED <<sp, once, pc, scalls, sd, reg, testMetrics, testVars, last>>

\* initMetrics: metricsOnce.Do, fast path.  initErr is nil.
initMetricsCall(c) ==
    /\ ini[c].pc = "once"
    /\ ini' = [ini EXCEPT ![c].pc = IF reg.once.done THEN "exit" ELSE "lock",
                          ![c].initErr = ""]
    /\ UNCHANGED <<sp, once, pc, scalls, sd, otel, reg, testMetrics, testVars, last>>

\* Mutant: the guard's done flag is not tested under its lock.
initMetricsLock_Unguarded(c) ==
    /\ ini[c].pc = "lock"
    /\ reg.once.holder = "none"
    /\ ini' = [ini EXCEPT ![c].pc = "body"]
    /\ reg' = [reg EXCEPT !.once.holder = c, !.bodyRuns = @ + 1]
    /\ UNCHANGED <<sp, once, pc, scalls, sd, otel, testMetrics, testVars, last>>

\* metricsOnce.Do, slow path: the caller takes the guard's lock (it waits
\* while another caller runs the body) and runs the body if it is still not
\* done.
initMetricsLock(c) ==
    /\ ini[c].pc = "lock"
    /\ reg.once.holder = "none"
    /\ IF reg.once.done
       THEN /\ ini' = [ini EXCEPT ![c].pc = "exit"]
            /\ UNCHANGED reg
       ELSE /\ ini' = [ini EXCEPT ![c].pc = "body"]
            /\ reg' = [reg EXCEPT !.once.holder = c, !.bodyRuns = @ + 1]
    /\ UNCHANGED <<sp, once, pc, scalls, sd, otel, testMetrics, testVars, last>>

\* The function initMetrics hands to metricsOnce.Do: the histogram, the
\* counter, and the store to testMetrics; either instrument may fail.
initMetricsBody(c) ==
    /\ ini[c].pc = "body"
    /\ \E durationErr \in BOOLEAN, countErr \in BOOLEAN :
          IF durationErr
          THEN /\ ini' = [ini EXCEPT ![c].pc = "unlock",
                                     ![c].initErr = "create duration histogram"]
               /\ UNCHANGED <<reg, testMetrics>>
          ELSE IF countErr
          THEN /\ ini' = [ini EXCEPT ![c].pc = "unlock",
                                     ![c].initErr = "create count counter"]
               /\ UNCHANGED <<reg, testMetrics>>
          ELSE /\ ini' = [ini EXCEPT ![c].pc = "unlock"]
               /\ testMetrics' = [testMetrics EXCEPT !.set = TRUE]
               /\ reg' = [reg EXCEPT !.stored = @ + 1]
    /\ UNCHANGED <<sp, once, pc, scalls, sd, otel, testVars, last>>

\* The function has returned: sync.Once marks itself done and releases its
\* lock.
initMetricsExit(c) ==
    /\ ini[c].pc = "unlock"
    /\ reg' = [reg EXCEPT !.once = [done |-> TRUE, holder |-> "none"]]
    /\ ini' = [ini EXCEPT ![c].pc = "exit"]
    /\ UNCHANGED <<sp, once, pc, scalls, sd, otel, testMetrics, testVars, last>>

\* initMetrics returns initErr to setupMetrics, and Init returns.
InitReturn(c) ==
    /\ ini[c].pc = "exit"
    /\ ini' = [ini EXCEPT ![c] =
                  IF ini[c].initErr # ""
                  THEN Returned(ini[c], NilSession, ini[c].initErr)
                  ELSE Returned(ini[c], SessionOf(ini[c]), "")]
    /\ UNCHANGED <<sp, once, pc, scalls, sd, otel, reg, testMetrics, testVars, last>>

InitStep(c) ==
    \/ InitCall(c)
    \/ InitValidate(c)
    \/ setupTracing(c)
    \/ setupMetrics(c)
    \/ initMetricsCall(c)
    \/ initMetricsLock(c)
    \/ initMetricsBody(c)
    \/ initMetricsExit(c)
    \/ InitReturn(c)

TestStep(t) ==
    \/ NewCheck(t)
    \/ NewStart(t)
    \/ Log(t)
    \/ Logf(t)
    \/ Error(t)
    \/ Errorf(t)
    \/ Fatal(t)
    \/ Fatalf(t)
    \/ Skip(t)
    \/ Skipf(t)
    \/ FailNow(t)
    \/ SkipNow(t)
    \/ Teardown(t)
    \/ Direct(t)
    \/ Exit(t)
    \/ RunCleanup(t)

\* One test on a live Session, from New to the end of its cleanups.
Next == \E t \in {MainTest} : TestStep(t)

Spec == Init /\ [][Next]_vars

\* Concurrent callers of Shutdown on one Session.
NextShutdown == \E c \in Callers : Shutdown(c)

SpecShutdown == Init /\ [][NextShutdown]_vars

\* One test, from New to the end of its cleanups, with instruments that panic.
SpecFaulty == InitFaulty /\ [][Next]_vars

\* One test on the Session of the second Init of the process.
SpecSecond == InitSecond /\ [][Next]_vars

\* Init calls of two callers in one process, in any interleaving.
NextInit == \E c \in Callers : InitStep(c)

SpecInit == InitProcess /\ [][NextInit]_vars

\* The main test and its subtests: Run at two depths, Parallel, and calls
\* that fail, abort or skip the test they are made in.
RunStep(t) ==
    \/ Run(t)
    \/ RunReturn(t)
    \/ Parallel(t)
    \/ Resume(t)
    \/ Error(t)
    \/ Fatal(t)
    \/ Skip(t)
    \/ Exit(t)
    \/ RunCleanup(t)

NextRun ==
    \/ NewCheck(MainTest)
    \/ NewStart(MainTest)
    \/ \E t \in {MainTest} \cup Subtests : RunStep(t)

SpecRun == Init /\ [][NextRun]_vars

\* One test that calls Setup and Teardown, from New to the end of its
\* cleanups.
NextSetup ==
    \/ NewCheck(MainTest)
    \/ NewStart(MainTest)
    \/ Setup(MainTest)
    \/ Teardown(MainTest)
    \/ Error(MainTest)
    \/ Skip(MainTest)
    \/ Exit(MainTest)
    \/ RunCleanup(MainTest)

SpecSetup == Init /\ [][NextSetup]_vars

\* One test that registered a function on its handle before New, from New to
\* the end of its cleanups.
NextLate ==
    \/ NewCheck(MainTest)
    \/ LateCleanup(MainTest)
    \/ NewStart(MainTest)
    \/ Log(MainTest)
    \/ Skip(MainTest)
    \/ Exit(MainTest)
    \/ RunCleanup(MainTest)

SpecLate == Init /\ [][NextLate]_vars

\* Two tests on one Session, each from New to the end of its cleanups, in any
\* interleaving.
NextTwo ==
    \E t \in Roots :
        \/ NewCheck(t)
        \/ NewStart(t)
        \/ Error(t)
        \/ Exit(t)
        \/ RunCleanup(t)

SpecTwo == Init /\ [][NextTwo]_vars

\* One test, from New to the end of its cleanups, and Shutdown calls of two
\* callers on its Session, in any interleaving.
NextLive ==
    \/ NewCheck(MainTest)
    \/ NewStart(MainTest)
    \/ Error(MainTest)
    \/ Exit(MainTest)
    \/ RunCleanup(MainTest)
    \/ \E c \in Callers : Shutdown(c)

SpecLive == Init /\ [][NextLive]_vars

\* One test that starts spans of its own, from New to the end of its cleanups.
NextSpan ==
    \/ NewCheck(MainTest)
    \/ NewStart(MainTest)
    \/ StartSpan(MainTest)
    \/ EndSpan(MainTest)
    \/ Fatal(MainTest)
    \/ Skip(MainTest)
    \/ Exit(MainTest)
    \/ RunCleanup(MainTest)

SpecSpan == Init /\ [][NextSpan]_vars

\* The main test and a goroutine it started, both calling the wrapper.
NextHelper ==
    \/ NewCheck(MainTest)
    \/ NewStart(MainTest)
    \/ Error(MainTest)
    \/ Fatal(MainTest)
    \/ Skip(MainTest)
    \/ Exit(MainTest)
    \/ RunCleanup(MainTest)
    \/ HelperStep(MainTest)

SpecHelper == Init /\ [][NextHelper]_vars

\* New calls of two tests and Shutdown calls of two callers on one Session, in
\* any interleaving.  Shutdown is not called on a nil Session.
NextNew ==
    \/ \E t \in Roots : NewCheck(t) \/ NewStart(t)
    \/ \E c \in Callers : sp # NilSession /\ Shutdown(c)

SpecNew == InitNew /\ [][NextNew]_vars

\* ================================================================ claims
StepOps(steps) == [i \in 1..Len(steps) |-> steps[i].op]

Finalized(t) == fin[t].runs > 0

HasEvent(t, level) ==
    \E e \in BagToSet(spans[t].events) : e.name = logEventName /\ e.level = level

HasMessage(t, message) ==
    \E e \in BagToSet(spans[t].events) : e.name = logEventName /\ e.message = message

Called(t, ops) == hist[t] \cap ops # {}

\* C1: for every wrapper New returned, on every exit path of the test scope
\* (return, abort after Fatal, abort after Skip), the finalization hook runs
\* exactly once: one status write by finalization, one span end, one
\* recordTestMetrics call; it does not run before the scope exits, it is not
\* skipped, and it does not run twice.
C1_FinalizedExactlyOnce ==
    \A t \in Tests :
        /\ fin[t].runs <= 1 /\ fin[t].sets <= 1 /\ fin[t].ends <= 1 /\ fin[t].recs <= 1
        /\ phase[t] \in {"idle", "checked", "running"} => fin[t] = NoFin /\ ~spans[t].ended
        /\ (phase[t] = "done" /\ ts[t].created) =>
              /\ fin[t].runs = 1 /\ fin[t].sets = 1 /\ fin[t].ends = 1 /\ fin[t].recs = 1
              /\ spans[t].ended

\* A test on a *testing.T that Fatal aborted has been finalized.
C1_Witness ==
    \E t \in Tests :
        /\ phase[t] = "done" /\ tbs[t].kind = "T" /\ Called(t, {"Fatal", "Fatalf"})
        /\ fin[t].runs = 1 /\ spans[t].ended

\* C2: the finalization hook sets the status, then ends the span, then records
\* the metric, and does nothing else: no metric before the end, no status
\* write on the ended span.
C2_FinalizeOrder ==
    /\ last.op = "finalize" =>
          StepOps(last.steps) = <<"SetStatus", "End", "recordTestMetrics">>
    /\ \A t \in Tests : Finalized(t) => spans[t].ended /\ ~spans[t].late

C2_Witness ==
    /\ last.op = "finalize"
    /\ Len(last.steps) = 3
    /\ spans[last.t].ended

\* C3: the status finalization computes follows the priority failed (internal
\* flag or tb.Failed()), then skipped, then passed, for every combination of
\* the three flags, and the metric label is "fail" exactly when the span
\* status code is Error.
C3_StatusPriority ==
    \A t \in Tests :
        Finalized(t) =>
            /\ <<spans[t].code, spans[t].msg, fin[t].label>> =
                  IF ts[t].failed \/ tbs[t].failed
                  THEN <<codesError, "test failed", statusFail>>
                  ELSE IF tbs[t].skipped
                  THEN <<codesOk, "test skipped", statusSkip>>
                  ELSE <<codesOk, "test passed", statusPass>>
            /\ (fin[t].label = statusFail) <=> (spans[t].code = codesError)

\* A finalized test whose handle reports skipped and not failed while the
\* wrapper's flag is set.
C3_Witness ==
    \E t \in Tests :
        /\ Finalized(t) /\ ts[t].failed /\ ~tbs[t].failed /\ tbs[t].skipped
        /\ spans[t].code = codesError

\* C4: a test that called Error or Errorf on its wrapper is finalized with
\* status Error/"test failed" and metric label "fail", whatever else it
\* called, also when no Fatal was called and tb.Failed() reports false.
C4_ErrorMeansFailed ==
    \A t \in Tests :
        (Finalized(t) /\ Called(t, {"Error", "Errorf"})) =>
            /\ spans[t].code = codesError
            /\ spans[t].msg = "test failed"
            /\ fin[t].label = statusFail
            /\ testMetrics.set =>
                  /\ CopiesIn(Attrs(t, statusFail), testMetrics.count) = 1
                  /\ CopiesIn(Attrs(t, statusFail), testMetrics.duration) = 1

\* Errorf then Skip on a double whose Failed() stays false, no Fatal.
C4_Witness ==
    \E t \in Tests :
        /\ Finalized(t) /\ hist[t] = {"Errorf", "Skip"} /\ ~tbs[t].failed
        /\ tbs[t].skipped /\ spans[t].code = codesError

LogsDisabled == sp.config.DisableLogs

\* The steps of Fatal and Fatalf with the fatal event appended.
FatalSteps(method) ==
    << Step("setFailed", "", ""), Step("AddEvent", logEventName, levelFatal),
       Step("SetStatus", codesError, "test fatal"), Step("tb", method, "") >>

\* C5 as stated: in Fatal and Fatalf the failed flag is set, the level=fatal
\* event is appended and the status is set to Error/"test fatal", in this
\* order, and then the call is forwarded as the last step.
C5_Original ==
    last.op \in {"Fatal", "Fatalf"} => last.steps = FatalSteps(last.op)

\* C5 as amended: the same order, and the level=fatal event is appended
\* exactly when the Session's logs are not disabled; the forwarded call is
\* the last step and, when it does not return, the wrapper's writes are in
\* place.
C5_FatalOrder ==
    last.op \in {"Fatal", "Fatalf"} =>
        /\ last.steps = IF LogsDisabled
                        THEN << FatalSteps(last.op)[1], FatalSteps(last.op)[3],
                                FatalSteps(last.op)[4] >>
                        ELSE FatalSteps(last.op)
        /\ ts[last.t].failed
        /\ <<spans[last.t].code, spans[last.t].msg>> = <<codesError, "test fatal">>
        /\ ~LogsDisabled => HasEvent(last.t, levelFatal)

\* Fatalf on a *testing.T with logs enabled: the call did not return.
C5_Witness ==
    /\ last.op = "Fatalf" /\ ~LogsDisabled
    /\ tbs[last.t].kind = "T" /\ phase[last.t] = "exited"
    /\ last.steps = FatalSteps("Fatalf")

\* C6 as stated: after finalization a test that called Fatal or Fatalf has a
\* log event of level fatal on its span and final status Error.
C6_Original ==
    \A t \in Tests :
        (Finalized(t) /\ Called(t, {"Fatal", "Fatalf"})) =>
            HasEvent(t, levelFatal) /\ spans[t].code = codesError

\* C6 as amended: the final status is Error, and the level-fatal event is on
\* the span unless the Session's logs are disabled.
C6_FatalLeavesError ==
    \A t \in Tests :
        (Finalized(t) /\ Called(t, {"Fatal", "Fatalf"})) =>
            /\ spans[t].code = codesError
            /\ HasEvent(t, levelFatal) <=> ~LogsDisabled

\* Fatal on a double whose Failed() stays false, logs enabled.
C6_Witness ==
    \E t \in Tests :
        /\ Finalized(t) /\ Called(t, {"Fatal"}) /\ ~tbs[t].failed
        /\ HasEvent(t, levelFatal) /\ spans[t].code = codesError

\* C7 as stated: after finalization a test that called Skip or Skipf, whatever
\* it called before, has a log event of level skip and final status Ok.
C7_Original ==
    \A t \in Tests :
        (Finalized(t) /\ Called(t, {"Skip", "Skipf"})) =>
            HasEvent(t, levelSkip) /\ spans[t].code = codesOk

\* C7 as amended: the level-skip event is on the span unless logs are
\* disabled, and the final status is Ok unless the test also failed (a failing
\* call on the wrapper, or tb.Failed()), and then it is Error.
C7_SkipLeavesOk ==
    \A t \in Tests :
        (Finalized(t) /\ Called(t, {"Skip", "Skipf"})) =>
            /\ HasEvent(t, levelSkip) <=> ~LogsDisabled
            /\ spans[t].code =
                  IF Called(t, FailingCalls) \/ tbs[t].failed THEN codesError ELSE codesOk

\* Skipf aborted a test on a *testing.T after a Log: final status Ok.
C7_Witness ==
    \E t \in Tests :
        /\ Finalized(t) /\ hist[t] = {"Log", "Skipf"} /\ tbs[t].kind = "T"
        /\ HasEvent(t, levelSkip) /\ spans[t].code = codesOk /\ spans[t].msg = "test skipped"

LoggingCalls == {"Log", "Logf", "Error", "Errorf", "Fatal", "Fatalf", "Skip", "Skipf"}

LevelOf(op) ==
    CASE op \in {"Log", "Logf"} -> levelInfo
      [] op \in {"Error", "Errorf"} -> levelError
      [] op \in {"Fatal", "Fatalf"} -> levelFatal
      [] OTHER -> levelSkip

\* What a call does to the flag and the status, whatever the logs setting.
FlagAfter(op, before) == before \/ op \in {"Error", "Errorf", "Fatal", "Fatalf"}

StatusAfter(op, before) ==
    CASE op \in {"Fatal", "Fatalf"} -> <<codesError, "test fatal">>
      [] op \in {"Skip", "Skipf"} -> <<codesOk, "test skipped">>
      [] OTHER -> before

\* C9: with logs disabled no call ever appends a log-named event; every call
\* is forwarded to the handle, and it updates the failed flag and the span
\* status by the same rule with logs disabled as with logs enabled (with logs
\* enabled it appends exactly one log event of its level).
C9_LogsDisabled ==
    /\ [](LogsDisabled =>
            \A t \in Tests : \A e \in BagToSet(spans[t].events) : e.name # logEventName)
    /\ [][\A t \in Tests :
            (calls'[t] = calls[t] + 1 /\ last'.op \in LoggingCalls) =>
                /\ \E i \in 1..Len(last'.steps) : last'.steps[i] = Step("tb", last'.op, "")
                /\ ts'[t].failed = FlagAfter(last'.op, ts[t].failed)
                /\ <<spans'[t].code, spans'[t].msg>> =
                      StatusAfter(last'.op, <<spans[t].code, spans[t].msg>>)
                /\ IF LogsDisabled
                   THEN spans'[t].events = spans[t].events
                   ELSE \E m \in Msgs :
                           spans'[t].events =
                               spans[t].events
                                   (+) SetToBag({Event(logEventName, m, LevelOf(last'.op))})
         ]_vars

\* Logs disabled: Error then Skip on the mock were forwarded, the flag is set,
\* the status is that of Skip, and the span has no event.
C9_Witness ==
    \E t \in Tests :
        /\ LogsDisabled /\ hist[t] = {"Error", "Skip"} /\ last.op = "Skip"
        /\ tbs[t].failed /\ tbs[t].skipped /\ ts[t].failed
        /\ spans[t].code = codesOk /\ spans[t].events = EmptyBag

\* C10: for any number of Shutdown calls, sequential or concurrent, the body
\* (set the flag, release the tracer provider, release the meter provider)
\* runs exactly once: never twice, and once any call has returned it has run
\* in full; every other call changes nothing.
C10_ShutdownOnce ==
    /\ sd.bodyRuns <= 1 /\ sd.flagSets <= 1
    /\ sd.tracerReleases <= 1 /\ sd.meterReleases <= 1
    /\ \A c \in Callers :
          (pc[c] = "idle" /\ scalls[c] > 0) =>
              /\ once.done /\ sp.shutdown
              /\ sd.bodyRuns = 1 /\ sd.flagSets = 1
              /\ sd.tracerReleases = (IF sp.config.DisableTraces THEN 0 ELSE 1)
              /\ sd.meterReleases = (IF sp.config.DisableMetrics THEN 0 ELSE 1)

\* Two callers have each called Shutdown twice and all calls have returned.
C10_Witness ==
    /\ \A c \in Callers : pc[c] = "idle" /\ scalls[c] = MaxShutdownCalls
    /\ sd.bodyRuns = 1 /\ sd.tracerReleases = 1 /\ sd.meterReleases = 1

\* The Session is nil or was never initialized.
Uninitialized == sp = NilSession \/ ~sp.initialized

\* New left nothing behind for test t.
NoTrace(t) == ~ts[t].created /\ spans[t] = NoSpan /\ tbs[t].cleanups = <<>>

\* C11: New on a nil or never-initialized Session returns ErrNotInitialized
\* (also when Shutdown was called on it), New on a Session whose Shutdown has
\* completed returns ErrAlreadyShutdown, on every call; a failed New returns
\* no wrapper, starts no span and registers no cleanup hook.
C11_NewFailsOnMisuse ==
    /\ [](\A t \in Tests :
            /\ ts[t].err # "" => NoTrace(t) /\ phase[t] = "idle"
            /\ ts[t].err = "ErrNotInitialized" => Uninitialized
            /\ ts[t].err = "ErrAlreadyShutdown" => ~Uninitialized /\ sp.shutdown
            /\ Uninitialized => NoTrace(t))
    /\ [][\A t \in Tests :
            (phase[t] = "idle" /\ last'.op = "New" /\ last'.t = t) =>
                /\ Uninitialized =>
                      ts'[t].err = "ErrNotInitialized" /\ phase'[t] = "idle"
                /\ (~Uninitialized /\ once.done) =>
                      ts'[t].err = "ErrAlreadyShutdown" /\ phase'[t] = "idle"
         ]_vars

\* Shutdown has completed on an initialized Session and the New calls of both
\* tests have failed; nothing was started.
C11_Witness ==
    /\ ~Uninitialized /\ once.done
    /\ \A t \in Roots : ts[t].err = "ErrAlreadyShutdown" /\ NoTrace(t)

\* C12: under every interleaving of New calls with a concurrent Shutdown, once
\* the shutdown flag has been set no New call starts a span or returns a
\* wrapper.
C12_NoWrapperAfterShutdown ==
    [][\A t \in Tests :
          sp # NilSession /\ sp.shutdown =>
              /\ spans'[t].started => spans[t].started
              /\ ts'[t].created => ts[t].created
      ]_vars

\* The name, the parent and the attributes Run gives the span of subtest c.
SubtestSpan(c, s) ==
    /\ s.name = c
    /\ \E n \in SubNames : c = Child(Parent(c), n)
    /\ s.parent = spans[Parent(c)].name
    /\ s.attrs = {<<attrTestName, c>>, <<attrTestParent, Parent(c)>>}

NoSubtest(t) ==
    \A c \in Children(t) : phase[c] = "idle" /\ spans[c] = NoSpan /\ ~ts[c].created

\* The last step of Run when the forwarded Fatal has returned.
ReturnsFalse(steps) == steps # <<>> /\ steps[Len(steps)] = Step("return", "false", "")

\* C14 as stated: Run on a wrapper whose handle does not support subtests
\* forces a Fatal on the parent wrapper (failed flag set, fatal event, status
\* Error, forwarded to the handle's Fatal), never invokes fn, never starts a
\* child span, and returns false if the forwarded Fatal returns.
C14_Original ==
    last.op = "Run" =>
        /\ ts[last.t].failed
        /\ HasEvent(last.t, levelFatal)
        /\ <<spans[last.t].code, spans[last.t].msg>> = <<codesError, "test fatal">>
        /\ \E i \in 1..Len(last.steps) : last.steps[i] = Step("tb", "Fatal", "")
        /\ NoSubtest(last.t)
        /\ tbs[last.t].kind = "double" => ReturnsFalse(last.steps)

\* C14 as amended: the same, and the fatal event is appended exactly when the
\* Session's logs are not disabled.
C14_RunRefused ==
    last.op = "Run" =>
        /\ tbs[last.t].kind # "T"
        /\ ts[last.t].failed
        /\ HasEvent(last.t, levelFatal) <=> ~LogsDisabled
        /\ <<spans[last.t].code, spans[last.t].msg>> = <<codesError, "test fatal">>
        /\ last.steps =
              (IF LogsDisabled
               THEN << FatalSteps("Fatal")[1], FatalSteps("Fatal")[3], FatalSteps("Fatal")[4] >>
               ELSE FatalSteps("Fatal"))
              \o (IF tbs[last.t].kind = "double"
                  THEN << Step("return", "false", "") >> ELSE << >>)
        /\ NoSubtest(last.t)
        /\ tbs[last.t].kind = "B" => phase[last.t] = "exited"

\* Run on a double: the forwarded Fatal returned and Run returned false.
C14_Witness ==
    /\ last.op = "Run" /\ tbs[last.t].kind = "double" /\ ~LogsDisabled
    /\ ReturnsFalse(last.steps) /\ phase[last.t] = "running"
    /\ ts[last.t].failed /\ HasEvent(last.t, levelFatal)

\* Observations a metric instrument holds for test t, over all status labels.
Observations(t, instrument) ==
    CopiesIn(Attrs(t, statusPass), instrument)
        + CopiesIn(Attrs(t, statusFail), instrument)
        + CopiesIn(Attrs(t, statusSkip), instrument)

\* C15: with an initialized metrics registry, every instrumented test, whether
\* its wrapper was created by New or as a subtest by Run, has caused exactly
\* one duration observation and one count increment when it is complete, and
\* none before.
C15_OneMetricPerTest ==
    \A t \in Tests :
        (ts[t].created /\ testMetrics.set) =>
            /\ Observations(t, testMetrics.duration) = (IF phase[t] = "done" THEN 1 ELSE 0)
            /\ Observations(t, testMetrics.count) = (IF phase[t] = "done" THEN 1 ELSE 0)

\* C16: for any number of Init calls with metrics enabled, sequential or
\* concurrent, the instrument-creating body of initMetrics runs exactly once:
\* never twice, and it has run once any call is past initMetrics; at most one
\* instrument set is ever stored in the registry, and once set it is not
\* replaced.
C16_RegistryOnce ==
    /\ [](/\ reg.bodyRuns <= 1 /\ reg.stored <= 1
          /\ testMetrics.set <=> reg.stored = 1
          /\ \A c \in Callers :
                (ini[c].pc = "exit" \/ ini[c].res.made.mp = "live") =>
                    reg.once.done /\ reg.bodyRuns = 1)
    /\ [][testMetrics.set => testMetrics' = testMetrics /\ reg'.stored = reg.stored]_vars

\* Both callers have made all their Init calls, the last ones returned
\* Sessions with metrics enabled, and the body ran once.
C16_Witness ==
    /\ \A c \in Callers :
          /\ ini[c].pc = "idle" /\ ini[c].n = MaxInitCalls
          /\ ini[c].res.sp # NilSession /\ ini[c].res.sp.meterProvider = "live"
    /\ reg.bodyRuns = 1 /\ reg.stored = 1 /\ testMetrics.set

ConfigErrors == {"ErrMissingServiceName", "ErrMissingEndpoint"}

C17_RecordNeverFails ==
    \A t \in Tests :
        /\ ~fin[t].panicked
        /\ (fin[t].recs > 0 /\ ~testMetrics.set) =>
              testMetrics.duration = EmptyBag /\ testMetrics.count = EmptyBag

\* The teardown spans of test t are those of its Teardown calls, each ended
\* after one run of its function.
TeardownsRan(t) ==
    /\ Len(aux[t].spans) = aux[t].given
    /\ \A i \in 1..Len(aux[t].spans) :
          aux[t].spans[i] =
              [name |-> t \o spanTeardown, parent |-> spans[t].name,
               attrs |-> {<<attrTestPhase, "teardown">>}, ended |-> TRUE, fn |-> 1]

\* C18: a function passed to Teardown is not run during the test body; it
\* runs exactly once at test-scope exit, inside its own span named
\* Name()+"/teardown" and tagged test.phase=teardown, and it runs and its
\* span ends before the finalization hook sets the test span's status and
\* ends the test span.
C18_TeardownBeforeFinalize ==
    /\ \A t \in Tests :
          /\ phase[t] \in {"idle", "checked", "running"} => aux[t].spans = <<>>
          /\ (Finalized(t) \/ (phase[t] = "done" /\ ts[t].created)) => TeardownsRan(t)
    /\ last.op = "Teardown" => tbs[last.t].cleanups[Len(tbs[last.t].cleanups)] = "teardown"
    /\ last.op = "teardown" =>
          /\ StepOps(last.steps) = <<"Start", "fn", "End">>
          /\ ~spans[last.t].ended /\ fin[last.t] = NoFin
          /\ phase[last.t] = "exited"

\* A test on a *testing.T handed a function to Teardown and was aborted by
\* Fatal: the function ran once in its span, and the test span was
\* finalized after it.
C18_Witness ==
    \E t \in Tests :
        /\ phase[t] = "done" /\ tbs[t].kind = "T" /\ hist[t] = {"Teardown", "Fatal"}
        /\ aux[t].given = 1 /\ TeardownsRan(t)
        /\ Finalized(t) /\ spans[t].ended /\ last.op = "finalize"

\* C19: Parallel appends the parallel event carrying the span's trace
\* identifier to the current span and then forwards to tt.Parallel(), in this
\* order; on a wrapper whose handle is not a *testing.T it appends no event,
\* forwards nothing and changes no state.
C19_ParallelOrder ==
    [][\A t \in Tests :
          (calls'[t] = calls[t] + 1 /\ last'.op = "Parallel" /\ last'.t = t) =>
              IF tbs[t].kind = "T"
              THEN /\ last'.steps = << Step("AddEvent", "parallel", TraceID(spans[t])),
                                      Step("tb", "Parallel", "") >>
                   /\ spans'[t] =
                         [spans[t] EXCEPT
                            !.events = @ (+) SetToBag({ParallelEvent(TraceID(spans[t]))})]
                   /\ TraceID(spans[t]) = MainTest
                   /\ ts' = ts /\ tbs' = tbs /\ fin' = fin
              ELSE /\ last'.steps = << >>
                   /\ ts' = ts /\ spans' = spans /\ tbs' = tbs /\ fin' = fin
                   /\ phase' = phase /\ testMetrics' = testMetrics
      ]_vars

\* The subtest of the subtest has called Parallel: its span carries the
\* parallel event with the trace identifier of the main test's span.
C19_Witness ==
    \E t \in Subtests :
        /\ Parent(t) \in Subtests /\ last.op = "Parallel" /\ last.t = t
        /\ CopiesIn(ParallelEvent(MainTest), spans[t].events) = 1
        /\ phase[t] = "paused"

\* The endpoint starts with none of grpc://, http://, https://.
NoScheme(endpoint) == parseProtocol(endpoint)[3] # ""

\* C21: an Init call whose endpoint does not start with one of the schemes
\* grpc://, http:// or https:// returns an error and no Session, for every
\* combination of the other options.
C21_InvalidScheme ==
    [][\A c \in Callers :
          (ini[c].pc \notin {"idle"} /\ ini'[c].pc = "idle" /\ NoScheme(ini[c].cfg.Endpoint)) =>
              ini'[c].res.sp = NilSession /\ ini'[c].res.err # ""
      ]_vars

\* A Shutdown call of caller c has returned.
ShutdownReturned(c) == pc[c] = "idle" /\ scalls[c] > 0

Logged(line) == \E i \in 1..Len(sd.logged) : sd.logged[i] = line

\* C22: a failure to release a provider in Shutdown is logged and neither
\* raised nor retried: each provider is released at most once, a failure is
\* one log line, and when releasing the tracer provider has failed the meter
\* provider is still released once, the call returns, and the Session is shut
\* down.
C22_ShutdownFailuresLogged ==
    /\ sd.tracerReleases <= 1 /\ sd.meterReleases <= 1
    /\ Len(sd.logged) <= sd.tracerReleases + sd.meterReleases
    /\ Logged(logTracer) => sd.tracerReleases = 1 /\ sp.shutdown
    /\ Logged(logMeter) => sd.meterReleases = 1 /\ sp.shutdown
    /\ \A c \in Callers :
          (Logged(logTracer) /\ (pc[c] = "exit" \/ ShutdownReturned(c))) =>
              /\ sd.meterReleases = (IF sp.config.DisableMetrics THEN 0 ELSE 1)
              /\ sp.meterProvider \in {"nil", "shutdown"}
              /\ sp.shutdown

\* Releasing both providers failed; both failures were logged, every Shutdown
\* call has returned and the Session is shut down.
C22_Witness ==
    /\ sd.logged = <<logTracer, logMeter>>
    /\ \A c \in Callers : ShutdownReturned(c)
    /\ sd.tracerReleases = 1 /\ sd.meterReleases = 1
    /\ sp.shutdown /\ once.done

\* The steps of Error and Errorf with the error event appended.
ErrorSteps(method) ==
    << Step("setFailed", "", ""), Step("tb", method, ""),
       Step("AddEvent", logEventName, levelError) >>

\* C23 as stated: Error and Errorf set the failed flag, then forward to the
\* handle, then append the level=error event.
C23_Original ==
    last.op \in {"Error", "Errorf"} =>
        last.steps = ErrorSteps(last.op) /\ HasEvent(last.t, levelError)

\* C23 as amended: Error and Errorf set the failed flag, then forward to the
\* handle, then append the level=error event unless the Session's logs are
\* disabled; they leave the span status alone and the span open, run no
\* finalization, and the wrapper stays running.
C23_ErrorNonTerminal ==
    [][\A t \in Tests :
          (calls'[t] = calls[t] + 1 /\ last'.op \in {"Error", "Errorf"} /\ last'.t = t) =>
              /\ last'.steps = IF LogsDisabled
                               THEN SubSeq(ErrorSteps(last'.op), 1, 2)
                               ELSE ErrorSteps(last'.op)
              /\ ts'[t].failed
              /\ HasEvent(t, levelError)' <=> (~LogsDisabled \/ HasEvent(t, levelError))
              /\ <<spans'[t].code, spans'[t].msg>> = <<spans[t].code, spans[t].msg>>
              /\ ~spans'[t].ended /\ ~spans'[t].late
              /\ fin' = fin
              /\ phase'[t] = "running"
      ]_vars

\* Errorf, then Log on the same wrapper of a *testing.T: the Log took effect,
\* the span is open and its status is unset.
C23_Witness ==
    \E t \in Tests :
        /\ hist[t] = {"Errorf", "Log"} /\ last.op = "Log" /\ tbs[t].kind = "T"
        /\ ~LogsDisabled /\ ts[t].failed /\ tbs[t].failed
        /\ HasEvent(t, levelError) /\ HasEvent(t, levelInfo)
        /\ spans[t].code = codesUnset /\ ~spans[t].ended /\ phase[t] = "running"

\* The wrapper methods that write the failed flag.
FlagWriters == {"Error", "Errorf", "Fatal", "Fatalf", "FailNow", "Run", "go.setFailed"}

\* C24: the failed flag is written and read under the wrapper's mutex and is
\* monotonic: a write is made by a failing call that holds the mutex (the
\* helper goroutine between Lock and Unlock, the test goroutine when the
\* mutex is free), nothing resets the flag, and a finalization that runs
\* after a failing call has set the flag reads it with the mutex free and
\* reports the test failed.
C24_FailedFlagMonotonic ==
    /\ [](/\ helper.pc \in {"set", "unlock"} <=> mu[MainTest] = "helper"
          /\ helper.pc \in {"unlock", "forward"} => ts[MainTest].failed)
    /\ [][\A t \in Tests :
            /\ (ts[t].created /\ ts[t].failed) => ts'[t].failed
            /\ (ts[t].created /\ ts'[t].failed # ts[t].failed) =>
                  /\ last'.op \in FlagWriters
                  /\ mu[t] = (IF last'.op = "go.setFailed" THEN "helper" ELSE "free")
            /\ (fin'[t].runs = fin[t].runs + 1) =>
                  /\ mu[t] = "free"
                  /\ ts[t].failed =>
                        /\ <<spans'[t].code, spans'[t].msg>> = <<codesError, "test failed">>
                        /\ fin'[t].label = statusFail
         ]_vars

\* The helper goroutine's Error call completed on a double whose Failed()
\* stays false, the test goroutine made no failing call, and the finalization
\* that ran after it reported the test failed.
C24_Witness ==
    /\ last.op = "finalize" /\ last.t = MainTest
    /\ helper = [pc |-> "idle", n |-> 1]
    /\ ~Called(MainTest, FailingCalls) /\ ~tbs[MainTest].failed
    /\ ts[MainTest].failed
    /\ spans[MainTest].code = codesError /\ fin[MainTest].label = statusFail

\* The status the finalization of a subtest computes from the flags of the
\* nested test.
SubtestStatus(failed, skipped) ==
    CASE failed -> <<codesError, "subtest failed">>
      [] skipped -> <<codesOk, "subtest skipped">>
      [] OTHER -> <<codesOk, "subtest passed">>

\* C25: for a wrapper created by Run, the finalization hook is registered on
\* the nested test before fn runs; it runs exactly once on every exit path of
\* fn, sets the status from the nested test's Failed() and Skipped() only
\* (failed, else skipped, else passed), then ends the child span; the child
\* span is ended before the span of the parent wrapper is ended.
C25_SubtestFinalized ==
    /\ [](\A c \in Subtests :
            /\ fin[c].runs <= 1 /\ fin[c].sets <= 1 /\ fin[c].ends <= 1
            /\ phase[c] \in {"idle", "running", "waiting", "paused"} =>
                  fin[c] = NoFin /\ ~spans[c].ended
            /\ phase[c] = "done" =>
                  /\ fin[c].runs = 1 /\ fin[c].sets = 1 /\ fin[c].ends = 1
                  /\ spans[c].ended /\ ~spans[c].late
                  /\ <<spans[c].code, spans[c].msg>> =
                        SubtestStatus(tbs[c].failed, tbs[c].skipped)
            /\ (spans[c].started /\ spans[Parent(c)].ended) => spans[c].ended)
    /\ [][\A c \in Subtests :
            /\ (phase[c] = "idle" /\ phase'[c] # "idle") =>
                  /\ tbs'[c].cleanups = <<"finalizeSub">>
                  /\ calls'[c] = 0 /\ hist'[c] = {}
            /\ (fin'[c].runs = fin[c].runs + 1) =>
                  /\ last'.op = "finalizeSub"
                  /\ last'.steps =
                        << Step("SetStatus", SubtestStatus(tbs[c].failed, tbs[c].skipped)[1],
                                SubtestStatus(tbs[c].failed, tbs[c].skipped)[2]),
                           Step("End", "", "") >>
         ]_vars

\* A subtest whose own subtest was aborted by Fatal: its wrapper's failed flag
\* is not set, its nested test reports failed, and it was finalized with
\* Error while the span of the main test is still open.
C25_Witness ==
    \E c \in Subtests :
        /\ Parent(c) = MainTest /\ phase[c] = "done"
        /\ ~ts[c].failed /\ tbs[c].failed
        /\ \E g \in Children(c) : Called(g, {"Fatal"}) /\ phase[g] = "done" /\ spans[g].ended
        /\ <<spans[c].code, spans[c].msg>> = <<codesError, "subtest failed">>
        /\ spans[c].ended /\ ~spans[MainTest].ended

\* The one-time initializer of the registry has run and has failed.
InitMetricsFailed == reg.once.done /\ reg.stored = 0

\* C26: the one-time metrics initializer caches its construction error for
\* all callers: once its body has failed to create an instrument, every
\* initMetrics call reports an error, so that the Init call it was made in
\* returns an error and no Session, and the registry stays uninitialized.
C26_InitErrorCached ==
    /\ [](InitMetricsFailed => ~testMetrics.set)
    /\ [][\A c \in Callers :
            (ini[c].pc = "exit" /\ ini'[c].pc = "idle" /\ InitMetricsFailed) =>
                ini'[c].res.err # "" /\ ini'[c].res.sp = NilSession
         ]_vars

\* C27: with the registry initialized, a recordTestMetrics call adds one
\* observation to the duration histogram and one to the counter, both with
\* the labels test.name = the name of the test and test.status = the status
\* finalization computed, and changes nothing else in the registry; the
\* status is pass, fail or skip.
C27_RecordLabels ==
    [][\A t \in Tests :
          (fin'[t].recs = fin[t].recs + 1) =>
              /\ fin'[t].label \in {statusPass, statusFail, statusSkip}
              /\ last'.steps[Len(last'.steps)] =
                    Step("recordTestMetrics", t, fin'[t].label)
              /\ testMetrics' =
                    IF testMetrics.set
                    THEN [testMetrics EXCEPT
                            !.duration = @ (+) SetToBag({Attrs(t, fin'[t].label)}),
                            !.count = @ (+) SetToBag({Attrs(t, fin'[t].label)})]
                    ELSE testMetrics
      ]_vars

\* A skipped test was finalized with the registry initialized: one duration
\* observation and one count, both labelled with the test and skip.
C27_Witness ==
    \E t \in Tests :
        /\ Finalized(t) /\ testMetrics.set /\ fin[t].label = statusSkip
        /\ testMetrics.duration = SetToBag({Attrs(t, statusSkip)})
        /\ testMetrics.count = SetToBag({Attrs(t, statusSkip)})

\* The span Setup starts on the wrapper of test t, ended after one run of its
\* function.
SetupSpan(t) ==
    [name |-> t \o spanSetup, parent |-> spans[t].name,
     attrs |-> {<<attrTestPhase, "setup">>}, ended |-> TRUE, fn |-> 1]

\* C28: Setup runs the caller's function once, during the call, inside a span
\* started under the wrapper's context, named Name()+"/setup" and tagged
\* test.phase=setup; the span is ended when the function returns and when
\* it aborts the test, and it is ended before the wrapper's span is ended.
C28_SetupSpan ==
    /\ [](\A t \in Tests :
            \A i \in 1..Len(aux[t].setups) : aux[t].setups[i] = SetupSpan(t))
    /\ [][\A t \in Tests :
            (calls'[t] = calls[t] + 1 /\ last'.op = "Setup" /\ last'.t = t) =>
                /\ aux'[t].setups = Append(aux[t].setups, SetupSpan(t))
                /\ Len(last'.steps) >= 3
                /\ last'.steps[1] = Step("Start", t \o spanSetup, spans[t].name)
                /\ last'.steps[2] = Step("fn", t \o spanSetup, "")
                /\ last'.steps[Len(last'.steps)] = Step("End", t \o spanSetup, "")
                /\ ~spans'[t].ended /\ fin'[t] = NoFin
         ]_vars

\* The function handed to Setup called Fatal on a *testing.T: the test was
\* aborted, the setup span is ended and the span of the test is still open.
C28_Witness ==
    \E t \in Tests :
        /\ last.op = "Setup" /\ last.t = t /\ tbs[t].kind = "T"
        /\ phase[t] = "exited" /\ ts[t].failed
        /\ aux[t].setups = <<SetupSpan(t)>>
        /\ ~spans[t].ended

\* C29: no status write and no event append is made on a wrapper's span
\* after finalization has ended it, whatever calls are made on the wrapper
\* and wherever from (the test body, a cleanup function that runs after the
\* finalization hook, a goroutine that outlives the test body).
C29_NoWriteAfterEnd ==
    \A t \in Tests : ~spans[t].late

\* C30: a successful New starts one span, a root span (its parent is the
\* background context) named tb.Name() and tagged test.name=tb.Name(), and
\* registers one cleanup hook on the handle; the wrappers New created for two
\* tests share neither span nor failed flag: what one test does leaves the
\* span, the flag and the handle of the other as they were.
C30_NewRootSpan ==
    /\ [](\A t \in Roots :
            ts[t].created =>
                /\ spans[t].started /\ spans[t].name = t
                /\ spans[t].parent = "background" /\ TraceID(spans[t]) = t
                /\ spans[t].attrs = {<<attrTestName, t>>})
    /\ [][\A t \in Roots :
            /\ (phase[t] = "checked" /\ phase'[t] = "running") =>
                  /\ spans'[t] = StartedSpan(t, "background", {<<attrTestName, t>>})
                  /\ last'.steps = << Step("Start", t, "background") >>
                  /\ ts'[t].created /\ ~ts'[t].failed
                  /\ tbs'[t].cleanups = Append(tbs[t].cleanups, "finalize")
            /\ (calls'[t] # calls[t] \/ phase'[t] # phase[t] \/ fin'[t] # fin[t]) =>
                  \A u \in Roots \ {t} :
                      ts'[u] = ts[u] /\ spans'[u] = spans[u] /\ tbs'[u] = tbs[u]
         ]_vars

\* Both tests hold a wrapper; one has called Error, the other has not: one
\* flag is set, the other is not, and each span is the root of its own trace.
C30_Witness ==
    /\ \A t \in Roots : ts[t].created /\ phase[t] = "running"
    /\ ts["TestA"].failed /\ ~ts["TestB"].failed
    /\ TraceID(spans["TestA"]) = "TestA" /\ TraceID(spans["TestB"]) = "TestB"
    /\ tbs["TestB"].cleanups = <<"finalize">>

TracesDisabled == sp.config.DisableTraces

\* C31: on a Session created with traces disabled New succeeds, the wrapper
\* uses the process-default tracer (the Session's own tracer otherwise), and
\* the wrapper is finalized as with traces enabled: one status write, one
\* span end, one metric record when the test is complete.
C31_TracesDisabled ==
    /\ [](\A t \in Tests :
            /\ ts[t].err = ""
            /\ ts[t].created =>
                  /\ ts[t].tracer = (IF TracesDisabled THEN "global" ELSE "sdk")
                  /\ spans[t].started
            /\ (phase[t] = "done" /\ ts[t].created) =>
                  /\ fin[t].runs = 1 /\ fin[t].sets = 1 /\ fin[t].ends = 1 /\ fin[t].recs = 1
                  /\ spans[t].ended /\ spans[t].code # codesUnset)
    /\ [][\A t \in Tests :
            (phase[t] = "idle" /\ last'.op = "New" /\ last'.t = t) => phase'[t] = "checked"
         ]_vars

\* A test on a Session with traces disabled and metrics enabled is complete:
\* its wrapper held the process-default tracer and its metric was recorded.
C31_Witness ==
    \E t \in Tests :
        /\ TracesDisabled /\ testMetrics.set
        /\ phase[t] = "done" /\ ts[t].tracer = "global"
        /\ spans[t].ended /\ Observations(t, testMetrics.count) = 1

\* C32: an Init call that returns an error returns no Session and leaves no
\* live resource behind: no tracer provider and no meter provider the call
\* created is still live, not shut down, after it has returned.
C32_NoLeakOnError ==
    \A c \in Callers :
        ini[c].res.err # "" =>
            /\ ini[c].res.sp = NilSession
            /\ ini[c].res.made.tp # "live"
            /\ ini[c].res.made.mp # "live"

\* C33: a test whose wrapper was created from a Session with metrics
\* disabled records no metric observation at finalization, whatever Sessions
\* the process created before.
C33_MetricsDisabled ==
    \A t \in Tests :
        (sp.config.DisableMetrics /\ ts[t].created) =>
            /\ Observations(t, testMetrics.duration) = 0
            /\ Observations(t, testMetrics.count) = 0

\* The log events on the span of test t.
LogEvents(t) == {e \in BagToSet(spans[t].events) : e.name = logEventName}

\* C34: a wrapper created by Run holds the Session reference and the tracer
\* of the parent wrapper, at every depth, so the logs-disabled setting gates
\* the log events of a subtest as it does those of the top-level test; the
\* child starts with its failed flag cleared, whatever the parent's flag is,
\* and a write of the child's flag leaves the flags of its ancestors alone.
C34_SubtestInherits ==
    /\ [](\A c \in Subtests :
            ts[c].created =>
                /\ ts[c].spectra = ts[Parent(c)].spectra /\ ts[c].spectra = "sp"
                /\ ts[c].tracer = ts[Parent(c)].tracer
                /\ LogsDisabled => LogEvents(c) = {})
    /\ [][\A c \in Subtests :
            /\ (phase[c] = "idle" /\ phase'[c] # "idle") => ~ts'[c].failed
            /\ (ts'[c].failed # ts[c].failed) =>
                  \A a \in Ancestors(c) : ts'[a] = ts[a]
            /\ (calls'[c] = calls[c] + 1 /\ last'.op = "Error" /\ ~LogsDisabled) =>
                  \E m \in Msgs :
                      spans'[c].events =
                          spans[c].events (+) SetToBag({Event(logEventName, m, levelError)})
         ]_vars

\* The parent wrapper's flag was set before Run; the subtest of its subtest
\* started with a cleared flag and called Error with logs disabled: its flag
\* is set, its span has no log event, and the wrapper between them has its
\* flag cleared.
C34_Witness ==
    \E c \in Subtests :
        /\ Parent(c) \in Subtests /\ LogsDisabled
        /\ Called(c, {"Error"}) /\ ts[c].failed /\ LogEvents(c) = {}
        /\ ~ts[Parent(c)].failed /\ tbs[Parent(c)].failed
        /\ ts[c].spectra = "sp" /\ ts[c].tracer = ts[MainTest].tracer
        /\ ts[MainTest].failed /\ Called(MainTest, {"Error"})

\* A Shutdown call of caller c is under way.
InShutdown(c) == pc[c] \in {"once", "flag", "tracer", "meter", "exit"}

\* C35: a wrapper created before Shutdown is finalized when its test
\* completes during or after Shutdown: the finalization hook sets the status,
\* ends the span and records the metric once, whatever the shutdown flag is;
\* a step of Shutdown does not wait for a wrapper and changes nothing of it.
C35_FinalizedAfterShutdown ==
    /\ [](\A t \in Tests :
            /\ fin[t].runs <= 1 /\ fin[t].sets <= 1 /\ fin[t].ends <= 1 /\ fin[t].recs <= 1
            /\ (phase[t] = "done" /\ ts[t].created) =>
                  /\ fin[t].runs = 1 /\ fin[t].sets = 1 /\ fin[t].ends = 1 /\ fin[t].recs = 1
                  /\ spans[t].ended /\ spans[t].code # codesUnset
                  /\ testMetrics.set =>
                        /\ Observations(t, testMetrics.duration) = 1
                        /\ Observations(t, testMetrics.count) = 1)
    /\ [](\A c \in Callers :
            (InShutdown(c) /\ once.holder \in {"none", c}) => ENABLED Shutdown(c))
    /\ [][(pc' # pc \/ sd' # sd \/ once' # once) =>
             /\ UNCHANGED <<tbs, ts, spans, phase, calls, hist, fin, aux>>
             /\ testMetrics' = testMetrics
         ]_vars

\* Shutdown has completed while the test was running; the test then exited
\* and its finalization has just run: status set, span ended, metric
\* recorded.
C35_Witness ==
    /\ once.done /\ sp.shutdown /\ sp.meterProvider = "shutdown"
    /\ last.op = "finalize" /\ last.t = MainTest
    /\ Called(MainTest, {"Error"}) /\ phase[MainTest] = "done"
    /\ StepOps(last.steps) = <<"SetStatus", "End", "recordTestMetrics">>
    /\ spans[MainTest].ended /\ Observations(MainTest, testMetrics.count) = 1

\* C36: a span StartSpan returns is started under the wrapper's context and
\* belongs to the caller: only the caller's End ends it, nothing sets its
\* status, the finalization hook and the other wrapper operations leave it
\* as it is, and StartSpan changes neither the wrapper's span nor its failed
\* flag nor the handle.
C36_StartSpanOwned ==
    /\ [](\A t \in Tests :
            \A i \in 1..Len(aux[t].adhoc) :
                /\ aux[t].adhoc[i].parent = spans[t].name
                /\ aux[t].adhoc[i].name \in SpanNames
                /\ aux[t].adhoc[i].code = codesUnset)
    /\ [][\A t \in Tests :
            /\ (calls'[t] = calls[t] + 1 /\ last'.op = "StartSpan" /\ last'.t = t) =>
                  /\ \E name \in SpanNames :
                        /\ aux'[t].adhoc =
                              Append(aux[t].adhoc,
                                     [name |-> name, parent |-> spans[t].name,
                                      ended |-> FALSE, code |-> codesUnset])
                        /\ last'.steps = << Step("Start", name, spans[t].name) >>
                  /\ spans'[t] = spans[t] /\ ts'[t] = ts[t] /\ tbs'[t] = tbs[t]
                  /\ fin'[t] = fin[t] /\ phase'[t] = phase[t]
            /\ last'.op # "StartSpan" => Len(aux'[t].adhoc) = Len(aux[t].adhoc)
            /\ last'.op \notin {"StartSpan", "span.End"} => aux'[t].adhoc = aux[t].adhoc
         ]_vars

\* A test started a span and did not end it; the test is complete and its
\* finalization has just run: the span is still open and has no status.
C36_Witness ==
    \E t \in Tests :
        /\ phase[t] = "done" /\ Finalized(t) /\ spans[t].ended
        /\ last.op = "finalize"
        /\ Len(aux[t].adhoc) = 1
        /\ ~aux[t].adhoc[1].ended /\ aux[t].adhoc[1].code = codesUnset
        /\ aux[t].adhoc[1].parent = t

====
